---------------------------- MODULE Spec2Model ----------------------------
(***************************************************************************)
(* Model of the HTML diffing and resource-reconciliation core of the URL   *)
(* comparison tool: the line diff and the side-by-side aligner             *)
(* (utils/helpers), the tag-detail reconciler (DOMCompare), the resource   *)
(* reconciler and the folder tree (ResourceTracker) and the threshold      *)
(* alerts (utils/alertSystem).                                             *)
(*                                                                         *)
(* Texts are sequences of one-character strings, so that split, trim and   *)
(* the tokenizer of the line differ are computed, not assumed.             *)
(***************************************************************************)
EXTENDS Integers, Sequences, FiniteSets, TLC

VARIABLES
    html1,           \* DiffViewer: prodHTML, first argument of both helpers
    html2,           \* DiffViewer: devHTML, second argument of both helpers
    diffResult,      \* DiffViewer: useMemo(generateHTMLDiff)
    sideBySideDiff,  \* DiffViewer: useMemo(generateSideBySideDiff)
    diffDone,        \* has the generateHTMLDiff memo been computed
    sideDone,        \* has the generateSideBySideDiff memo been computed
    devDetails,      \* DOMCompare: devData.detailedScripts
    prodDetails,     \* DOMCompare: prodData.detailedScripts
    expandedRow,     \* DOMCompare: useState expandedRow
    tagView,         \* DOMCompare: what renderTagDetails computed for the open row
    urlA,            \* a resource URL handed to the two key helpers
    urlB,            \* a second resource URL handed to the two key helpers
    keysA,           \* normalized and comparison key computed for urlA
    keysB,           \* normalized and comparison key computed for urlB
    devItems,        \* ResourceTracker: devResources[category]
    prodItems,       \* ResourceTracker: prodResources[category]
    expandedCategory,\* ResourceTracker: useState expandedCategory
    categoryView,    \* ResourceTracker: what renderCategoryDetails computed
    viewMode,        \* ResourceTracker: useState viewMode
    expandedFolders, \* ResourceTracker: useState expandedFolders, a set of node paths
    treeView,        \* ResourceTracker: what renderTreeView computed
    thresholds,      \* AlertSystem: this.thresholds
    alerts,          \* AlertSystem: this.alerts
    call,            \* AlertSystem: the method last invoked
    calls,           \* AlertSystem: number of checks invoked since construction
    devValue,        \* the dev argument of the numeric checks (a size, a count or a score)
    prodValue,       \* the prod argument of the numeric checks
    devMetas,        \* the devMetas argument of checkMetaTags
    prodMetas,       \* the prodMetas argument of checkMetaTags
    doc,             \* analyzeDOMStructure: the elements of the parsed document, in document order
    detailedHeadings,\* analyzeDOMStructure: the detailedHeadings of its result
    domAnalyzed,     \* analyzeDOMStructure has returned
    page,            \* analyzeResourcesFromHTML: the resource elements of the rendered document
    analysis,        \* analyzeResourcesFromHTML: "idle", "fetching" or "done"
    contentFetches,  \* state of each content fetch: "pending" (in flight) or "settled"
    resourceList,    \* the `resources` array the callbacks push into
    resourceData,    \* the ResourceData returned, <<>> before
    devSite,         \* App: what the dev URL serves
    prodSite,        \* App: what the prod URL serves
    config,          \* App: the thresholds getConfig() returns
    runPc,           \* handleSubmit: "idle", "fetching", "resources" or "done"
    runs,            \* number of comparison runs started
    devHTML,         \* fetchHTML(devUrl): "none", "pending", "resolved" or "rejected"
    prodHTML,        \* fetchHTML(prodUrl)
    loading,         \* App state
    error,           \* App state
    devData,         \* App state: <<>> for null
    prodData,        \* App state: <<>> for null
    appAlerts,       \* App state `alerts`
    historyUpdated,  \* App state
    history,         \* the history list stored under HISTORY_KEY
    now,             \* the reading of Date.now()
    fileHistory,     \* CLI: the list stored in .comparison-history.json
    deleted,         \* what the last HistoryManager.delete returned: "none", "true" or "false"
    histOps,         \* number of history operations invoked
    histCall,        \* the last history operation and the id it was about
    dlPc,            \* downloadAllResources: "idle", "batch", "zip" or "done"
    dlTotal,         \* allResources.length
    dlIndex,         \* the loop index i: start of the current batch (0-based)
    dlStatus,        \* per resource: "waiting", "inflight", "ok" or "failed"
    dlAttempts,      \* per resource: number of downloadResource calls for it
    downloaded,      \* the counter `downloaded`
    successful,      \* the counter `successful`
    progress,        \* the arguments of the last onProgress call
    tlHistory,       \* HistoryTimeline state `history`
    tlFilter,        \* HistoryTimeline state `filter`
    selectedItem,    \* HistoryTimeline state: the id of the selected item, <<>> for null
    memoized,        \* the array useMemo holds for filteredHistory
    memoFilter,      \* the filter the memoised array was computed for
    displayed,       \* the items in the order the last render showed them
    renders          \* number of renders of HistoryTimeline

diffVars == <<html1, html2, diffResult, sideBySideDiff, diffDone, sideDone>>
tagVars  == <<devDetails, prodDetails, expandedRow, tagView>>
keyVars  == <<urlA, urlB, keysA, keysB>>
resVars  == <<devItems, prodItems, expandedCategory, categoryView>>
treeVars == <<viewMode, expandedFolders, treeView>>
alertVars == <<thresholds, alerts, call, calls, devValue, prodValue, devMetas, prodMetas>>
coreVars == <<diffVars, tagVars, keyVars, resVars, treeVars, alertVars>>
headVars == <<doc, detailedHeadings, domAnalyzed>>
fetchVars == <<page, analysis, contentFetches, resourceList, resourceData>>
runVars  == <<devSite, prodSite, config, runPc, runs, devHTML, prodHTML, loading, error,
              devData, prodData, appAlerts, historyUpdated>>
histAux  == <<fileHistory, deleted, histOps, histCall>>
histVars == <<history, now, histAux>>
dlVars   == <<dlPc, dlTotal, dlIndex, dlStatus, dlAttempts, downloaded, successful, progress>>
tlVars   == <<tlHistory, tlFilter, selectedItem, memoized, memoFilter, displayed, renders>>
appVars  == <<headVars, fetchVars, runVars, histVars, dlVars, tlVars>>
vars     == <<coreVars, appVars>>

(***************************************************************************)
(* Bounds                                                                  *)
(***************************************************************************)
MaxLen == 3
MaxTags == 2
MaxSegs == 2
MaxItems == 2
MaxTreeItems == 2
MaxThreshold == 1
MaxValue == 2
MaxCalls == 2
MaxHeadings == 2
MaxPage == 2
MaxFetches == 6
MaxRuns == 2
MaxSaves == 2
MaxDownloads == 6
MaxTimeline == 3
MaxRenders == 5
\* historyManager.ts: const MAX_HISTORY_ITEMS = 100
MAX_HISTORY_ITEMS == 100
\* downloadResources.ts: const concurrency = 5
concurrency == 5

(***************************************************************************)
(* Characters and strings                                                  *)
(***************************************************************************)
NL == "\n"
SP == " "
Chars == {"a", "b", SP, NL}

\* All strings over cs of length at most n.
StringsUpTo(cs, n) == UNION {[1..k -> cs] : k \in 0..n}

\* The scenario of the specification: a,b,c against a,x,c.
ScenarioA == <<"a", NL, "b", NL, "c">>
ScenarioB == <<"a", NL, "x", NL, "c">>

Texts == StringsUpTo(Chars, MaxLen) \cup {ScenarioA, ScenarioB}

IsWhitespace(c) == c \in {SP, NL}

RECURSIVE trimStart(_)
trimStart(s) ==
    IF s = <<>> THEN <<>>
    ELSE IF IsWhitespace(Head(s)) THEN trimStart(Tail(s))
    ELSE s

RECURSIVE trimEnd(_)
trimEnd(s) ==
    IF s = <<>> THEN <<>>
    ELSE IF IsWhitespace(s[Len(s)]) THEN trimEnd(SubSeq(s, 1, Len(s) - 1))
    ELSE s

\* String.prototype.trim
trim(s) == trimEnd(trimStart(s))

\* String.prototype.split with a one-character separator
RECURSIVE split(_, _)
split(s, sep) ==
    IF s = <<>> THEN << <<>> >>
    ELSE IF Head(s) = sep THEN << <<>> >> \o split(Tail(s), sep)
    ELSE LET r == split(Tail(s), sep)
         IN  << <<Head(s)>> \o Head(r) >> \o Tail(r)

\* Array.prototype.join('') of a list of strings
RECURSIVE concat(_)
concat(ss) == IF ss = <<>> THEN <<>> ELSE Head(ss) \o concat(Tail(ss))

\* value.split('\n').filter(line => line.trim())
nonBlankLines(value) == SelectSeq(split(value, NL), LAMBDA line : trim(line) # <<>>)

(***************************************************************************)
(* Diff.diffLines of the `diff` package: the text is cut into line tokens  *)
(* that keep their terminator, a longest-common-subsequence edit script is *)
(* computed over the tokens, and runs of the same operation are merged     *)
(* into change objects {count, value, added, removed}; within a change     *)
(* block removals come before additions.                                   *)
(***************************************************************************)
tokenize(value) ==
    LET ls == split(value, NL)
        n  == Len(ls)
    IN  [i \in 1..(n - 1) |-> ls[i] \o <<NL>>]
        \o (IF ls[n] = <<>> THEN <<>> ELSE <<ls[n]>>)

Max(x, y) == IF x >= y THEN x ELSE y
Min(x, y) == IF x <= y THEN x ELSE y

RECURSIVE lcsLength(_, _)
lcsLength(a, b) ==
    IF a = <<>> \/ b = <<>> THEN 0
    ELSE IF Head(a) = Head(b) THEN 1 + lcsLength(Tail(a), Tail(b))
    ELSE Max(lcsLength(Tail(a), b), lcsLength(a, Tail(b)))

\* The edit script as a sequence of single-token change objects.
RECURSIVE editScript(_, _)
editScript(a, b) ==
    IF a = <<>> /\ b = <<>> THEN <<>>
    ELSE IF b = <<>>
         THEN <<[count |-> 1, value |-> Head(a), added |-> FALSE, removed |-> TRUE]>>
              \o editScript(Tail(a), b)
    ELSE IF a = <<>>
         THEN <<[count |-> 1, value |-> Head(b), added |-> TRUE, removed |-> FALSE]>>
              \o editScript(a, Tail(b))
    ELSE IF Head(a) = Head(b)
         THEN <<[count |-> 1, value |-> Head(a), added |-> FALSE, removed |-> FALSE]>>
              \o editScript(Tail(a), Tail(b))
    ELSE IF lcsLength(Tail(a), b) >= lcsLength(a, Tail(b))
         THEN <<[count |-> 1, value |-> Head(a), added |-> FALSE, removed |-> TRUE]>>
              \o editScript(Tail(a), b)
    ELSE <<[count |-> 1, value |-> Head(b), added |-> TRUE, removed |-> FALSE]>>
         \o editScript(a, Tail(b))

\* Merge neighbouring change objects of the same operation.
RECURSIVE buildValues(_)
buildValues(components) ==
    IF Len(components) <= 1 THEN components
    ELSE LET c    == Head(components)
             rest == buildValues(Tail(components))
             d    == Head(rest)
         IN  IF c.added = d.added /\ c.removed = d.removed
             THEN <<[count |-> c.count + d.count, value |-> c.value \o d.value,
                     added |-> c.added, removed |-> c.removed]>> \o Tail(rest)
             ELSE <<c>> \o rest

diffLines(oldStr, newStr) == buildValues(editScript(tokenize(oldStr), tokenize(newStr)))

(***************************************************************************)
(* utils/helpers: generateHTMLDiff                                         *)
(***************************************************************************)
RECURSIVE collectLines(_, _)
\* diff.forEach: push the non-blank lines of every part of the given kind
collectLines(diff, kind) ==
    IF diff = <<>> THEN <<>>
    ELSE LET part  == Head(diff)
             lines == nonBlankLines(part.value)
             mine  == IF kind = "added" THEN part.added
                      ELSE (~part.added /\ part.removed)
         IN  (IF mine THEN lines ELSE <<>>) \o collectLines(Tail(diff), kind)

generateHTMLDiffDropEqual(h1, h2) ==
    LET diff == diffLines(h1, h2)
    IN  [added    |-> collectLines(diff, "added"),
         removed  |-> collectLines(diff, "removed"),
         modified |-> <<>>,
         all      |-> SelectSeq(diff, LAMBDA part : part.added \/ part.removed)]

generateHTMLDiff(h1, h2) ==
    LET diff == diffLines(h1, h2)
    IN  [added    |-> collectLines(diff, "added"),
         removed  |-> collectLines(diff, "removed"),
         modified |-> <<>>,
         all      |-> diff]

(***************************************************************************)
(* utils/helpers: generateSideBySideDiff.  A line number is <<n>>, the     *)
(* null line number is <<>>.                                               *)
(***************************************************************************)
Null == <<>>

unchangedRows(lines, prodLineNum, devLineNum) ==
    [i \in 1..Len(lines) |->
        [prodLineNum |-> <<prodLineNum + i - 1>>, prodContent |-> lines[i],
         prodType |-> "normal",
         devLineNum |-> <<devLineNum + i - 1>>, devContent |-> lines[i],
         devType |-> "normal"]]

\* A plausible slip: the removed row carries a dev line number as well.
removedRowsNumbered(lines, prodLineNum) ==
    [i \in 1..Len(lines) |->
        [prodLineNum |-> <<prodLineNum + i - 1>>, prodContent |-> lines[i],
         prodType |-> "removed",
         devLineNum |-> <<prodLineNum + i - 1>>, devContent |-> <<>>, devType |-> "empty"]]

removedRows(lines, prodLineNum) ==
    [i \in 1..Len(lines) |->
        [prodLineNum |-> <<prodLineNum + i - 1>>, prodContent |-> lines[i],
         prodType |-> "removed",
         devLineNum |-> Null, devContent |-> <<>>, devType |-> "empty"]]

addedRows(lines, devLineNum) ==
    [i \in 1..Len(lines) |->
        [prodLineNum |-> Null, prodContent |-> <<>>, prodType |-> "empty",
         devLineNum |-> <<devLineNum + i - 1>>, devContent |-> lines[i],
         devType |-> "added"]]

\* A plausible slip: a removed line and the added line that replaces it share a row.
RECURSIVE sideBySideWalkPaired(_, _, _)
sideBySideWalkPaired(diff, prodLineNum, devLineNum) ==
    IF diff = <<>> THEN <<>>
    ELSE LET part  == Head(diff)
             lines == nonBlankLines(part.value)
             n     == Len(lines)
         IN  IF ~part.added /\ ~part.removed
             THEN unchangedRows(lines, prodLineNum, devLineNum)
                  \o sideBySideWalkPaired(Tail(diff), prodLineNum + n, devLineNum + n)
             ELSE IF part.removed /\ n = 1 /\ Len(diff) > 1 /\ diff[2].added
                     /\ Len(nonBlankLines(diff[2].value)) = 1
             THEN <<[prodLineNum |-> <<prodLineNum>>, prodContent |-> lines[1],
                     prodType |-> "removed",
                     devLineNum |-> <<devLineNum>>,
                     devContent |-> nonBlankLines(diff[2].value)[1],
                     devType |-> "added"]>>
                  \o sideBySideWalkPaired(Tail(Tail(diff)), prodLineNum + 1, devLineNum + 1)
             ELSE IF part.removed
             THEN removedRows(lines, prodLineNum)
                  \o sideBySideWalkPaired(Tail(diff), prodLineNum + n, devLineNum)
             ELSE addedRows(lines, devLineNum)
                  \o sideBySideWalkPaired(Tail(diff), prodLineNum, devLineNum + n)

\* diff.forEach of generateSideBySideDiff with its two running counters
RECURSIVE sideBySideWalk(_, _, _)
sideBySideWalk(diff, prodLineNum, devLineNum) ==
    IF diff = <<>> THEN <<>>
    ELSE LET part  == Head(diff)
             lines == nonBlankLines(part.value)
             n     == Len(lines)
         IN  IF ~part.added /\ ~part.removed
             THEN unchangedRows(lines, prodLineNum, devLineNum)
                  \o sideBySideWalk(Tail(diff), prodLineNum + n, devLineNum + n)
             ELSE IF part.removed
             THEN removedRows(lines, prodLineNum)
                  \o sideBySideWalk(Tail(diff), prodLineNum + n, devLineNum)
             ELSE IF part.added
             THEN addedRows(lines, devLineNum)
                  \o sideBySideWalk(Tail(diff), prodLineNum, devLineNum + n)
             ELSE sideBySideWalk(Tail(diff), prodLineNum, devLineNum)

generateSideBySideDiff(h1, h2) == sideBySideWalk(diffLines(h1, h2), 1, 1)

(***************************************************************************)
(* Values that are absent                                                  *)
(***************************************************************************)
Undefined == "undefined"
NoView == [shown |-> FALSE]

EmptyDiffResult == [added |-> <<>>, removed |-> <<>>, modified |-> <<>>, all |-> <<>>]

IdleDiff ==
    /\ html1 = <<>> /\ html2 = <<>>
    /\ diffResult = EmptyDiffResult
    /\ sideBySideDiff = <<>>
    /\ diffDone = FALSE /\ sideDone = FALSE
IdleTags ==
    /\ devDetails = <<>> /\ prodDetails = <<>>
    /\ expandedRow = Null /\ tagView = NoView
IdleKeys ==
    /\ urlA = <<>> /\ urlB = <<>>
    /\ keysA = NoView /\ keysB = NoView
IdleRes ==
    /\ devItems = <<>> /\ prodItems = <<>>
    /\ expandedCategory = Null /\ categoryView = NoView
IdleTree ==
    /\ viewMode = "summary" /\ expandedFolders = {} /\ treeView = NoView

\* constructor(thresholds = {}): no field is set
NoThresholds ==
    [htmlSizeDiff |-> Null, scriptCountDiff |-> Null, imageCountDiff |-> Null,
     performanceScoreDiff |-> Null, seoScoreDiff |-> Null, brokenLinksMax |-> Null,
     lighthousePerformanceMin |-> Null]
\* the three meta tags checkMetaTags looks at, none of them present
criticalMetas == <<"description", "og:title", "og:description">>
NoMetas == [metaName \in {criticalMetas[i] : i \in 1..3} |-> Undefined]
IdleAlerts ==
    /\ thresholds = NoThresholds /\ alerts = <<>>
    /\ call = "none" /\ calls = 0
    /\ devValue = 0 /\ prodValue = 0
    /\ devMetas = NoMetas /\ prodMetas = NoMetas
IdleCore == IdleDiff /\ IdleTags /\ IdleKeys /\ IdleRes /\ IdleTree /\ IdleAlerts
IdleHead == doc = <<>> /\ detailedHeadings = <<>> /\ domAnalyzed = FALSE
IdleFetch ==
    /\ page = <<>> /\ analysis = "idle" /\ contentFetches = <<>>
    /\ resourceList = <<>> /\ resourceData = <<>>
NoSite == [facts |-> <<>>, metas |-> <<>>]
IdleRun ==
    /\ devSite = NoSite /\ prodSite = NoSite /\ config = NoThresholds
    /\ runPc = "idle" /\ runs = 0 /\ devHTML = "none" /\ prodHTML = "none"
    /\ loading = FALSE /\ error = "" /\ devData = <<>> /\ prodData = <<>>
    /\ appAlerts = <<>> /\ historyUpdated = 0
NoCall == [op |-> "none", id |-> 0]
IdleHistAux == fileHistory = <<>> /\ deleted = "none" /\ histOps = 0 /\ histCall = NoCall
IdleHist == history = <<>> /\ now = 0 /\ IdleHistAux
NoProgress == [current |-> 0, total |-> 0]
IdleDl ==
    /\ dlPc = "idle" /\ dlTotal = 0 /\ dlIndex = 0 /\ dlStatus = <<>> /\ dlAttempts = <<>>
    /\ downloaded = 0 /\ successful = 0 /\ progress = NoProgress
IdleTl ==
    /\ tlHistory = <<>> /\ tlFilter = "all" /\ selectedItem = <<>>
    /\ memoized = <<>> /\ memoFilter = "none" /\ displayed = <<>> /\ renders = 0
IdleApp == IdleHead /\ IdleFetch /\ IdleRun /\ IdleHist /\ IdleDl /\ IdleTl

(***************************************************************************)
(* DiffViewer: the two memoised computations over the props                *)
(***************************************************************************)
InitDiff ==
    /\ html1 \in Texts
    /\ html2 \in Texts
    /\ diffResult = EmptyDiffResult
    /\ sideBySideDiff = <<>>
    /\ diffDone = FALSE
    /\ sideDone = FALSE
    /\ IdleTags /\ IdleKeys /\ IdleRes /\ IdleTree /\ IdleAlerts /\ IdleApp

GenerateHTMLDiff ==
    /\ ~diffDone
    /\ diffResult' = generateHTMLDiff(html1, html2)
    /\ diffDone' = TRUE
    /\ UNCHANGED <<html1, html2, sideBySideDiff, sideDone, tagVars, keyVars, resVars, treeVars, alertVars, appVars>>

GenerateSideBySideDiff ==
    /\ ~sideDone
    /\ sideBySideDiff' = generateSideBySideDiff(html1, html2)
    /\ sideDone' = TRUE
    /\ UNCHANGED <<html1, html2, diffResult, diffDone, tagVars, keyVars, resVars, treeVars, alertVars, appVars>>

NextDiff == GenerateHTMLDiff \/ GenerateSideBySideDiff

SpecDiff == InitDiff /\ [][NextDiff]_vars

(***************************************************************************)
(* DOMCompare: renderTagDetails.  A TagDetail is a record whose absent     *)
(* fields are Undefined; JSON.stringify lists the fields that are present, *)
(* in the order the analyzer creates them.                                 *)
(***************************************************************************)
TagDetails ==
    [src : {Undefined, "a.js", "b.js"}, content : {Undefined, "x"},
     attributes : {"async=false"}]

ListsUpTo(S, n) == UNION {[1..k -> S] : k \in 0..n}

JSONstringify(d) ==
    SelectSeq(<< <<"src", d.src>>, <<"content", d.content>>,
                 <<"attributes", d.attributes>> >>,
              LAMBDA kv : kv[2] # Undefined)

\* new Map(details.map((d, i) => [JSON.stringify(d), {detail: d, index: i}])):
\* a later entry with the same key replaces the earlier one
detailMap(details) ==
    LET keys == {JSONstringify(details[i]) : i \in 1..Len(details)}
        last(k) == CHOOSE i \in 1..Len(details) :
                      /\ JSONstringify(details[i]) = k
                      /\ \A j \in 1..Len(details) :
                            JSONstringify(details[j]) = k => j <= i
    IN  [k \in keys |-> [detail |-> details[last(k)], index |-> last(k) - 1]]

mapHas(map, key) == key \in DOMAIN map

\* the loop over 0..maxLength-1 that pushes {dev, prod} when both exist
commonPairs(dev, prod) ==
    LET maxLength == Max(Len(dev), Len(prod))
        both == SelectSeq([i \in 1..maxLength |-> i],
                          LAMBDA i : i <= Len(dev) /\ i <= Len(prod))
    IN  [j \in 1..Len(both) |-> [dev |-> dev[both[j]], prod |-> prod[both[j]]]]

\* A plausible slip: the dev loop tests its own map instead of the prod map.
renderTagDetailsOwnMap(dev, prod) ==
    LET devMap  == detailMap(dev)
        prodMap == detailMap(prod)
    IN  [shown    |-> TRUE,
         devOnly  |-> SelectSeq(dev, LAMBDA d : ~mapHas(devMap, JSONstringify(d))),
         prodOnly |-> SelectSeq(prod, LAMBDA d : ~mapHas(devMap, JSONstringify(d))),
         common   |-> commonPairs(dev, prod)]

renderTagDetails(dev, prod) ==
    LET devMap  == detailMap(dev)
        prodMap == detailMap(prod)
    IN  [shown    |-> TRUE,
         devOnly  |-> SelectSeq(dev, LAMBDA d : ~mapHas(prodMap, JSONstringify(d))),
         prodOnly |-> SelectSeq(prod, LAMBDA d : ~mapHas(devMap, JSONstringify(d))),
         common   |-> commonPairs(dev, prod)]

InitTags ==
    /\ devDetails \in ListsUpTo(TagDetails, MaxTags)
    /\ prodDetails \in ListsUpTo(TagDetails, MaxTags)
    /\ expandedRow = Null
    /\ tagView = NoView
    /\ IdleDiff /\ IdleKeys /\ IdleRes /\ IdleTree /\ IdleAlerts /\ IdleApp

\* toggleRow(rowId) followed by the render it causes
ToggleRow(rowId) ==
    /\ expandedRow' = IF expandedRow = <<rowId>> THEN Null ELSE <<rowId>>
    /\ tagView' = IF expandedRow' = <<rowId>>
                  THEN renderTagDetails(devDetails, prodDetails)
                  ELSE NoView
    /\ UNCHANGED <<devDetails, prodDetails, diffVars, keyVars, resVars, treeVars, alertVars, appVars>>

NextTags == ToggleRow("scripts")

SpecTags == InitTags /\ [][NextTags]_vars

(***************************************************************************)
(* Resource URLs.  A URL string is a sequence of lexemes: a scheme         *)
(* ("https:"), "//", a host, then "/" and path segments, "?" and a query,  *)
(* "#" and a fragment.  Parsing works on the lexemes of the string.        *)
(***************************************************************************)
Schemes == {"http:", "https:"}
DevOrigin == <<"https:", "//", "dev.site">>
ProdOrigin == <<"https:", "//", "prod.site">>
PlainProdOrigin == <<"http:", "//", "prod.site">>
Relative == <<>>

RECURSIVE pathOf(_)
\* the path string of a list of segments
pathOf(segs) == IF segs = <<>> THEN <<>> ELSE <<"/", Head(segs)>> \o pathOf(Tail(segs))

\* the URL string with the given origin, path segments, query and fragment
Href(origin, segs, query, fragment) ==
    origin \o pathOf(segs)
           \o (IF query = Undefined THEN <<>> ELSE <<"?", query>>)
           \o (IF fragment = Undefined THEN <<>> ELSE <<"#", fragment>>)

KeySegments == {"cdn", "static", "app.js"}
KeyURLs ==
    {Href(o, p, q, f) : o \in {DevOrigin, PlainProdOrigin, Relative},
                        p \in ListsUpTo(KeySegments, MaxSegs),
                        q \in {Undefined, "v=1", "v=2"},
                        f \in {Undefined, "top"}}
    \cup {<<"inline-script-0">>}

RECURSIVE indexOfLexeme(_, _, _)
\* 0-based index of the first lexeme of s at or after position from+1 that is in
\* stops, or -1
indexOfLexeme(s, stops, from) ==
    IF from >= Len(s) THEN -1
    ELSE IF s[from + 1] \in stops THEN from
    ELSE indexOfLexeme(s, stops, from + 1)

\* s.substring(start)
substring(s, start) == SubSeq(s, start + 1, Len(s))

\* s.split(c)[0]
beforeFirst(s, c) ==
    LET i == indexOfLexeme(s, {c}, 0)
    IN  IF i = -1 THEN s ELSE SubSeq(s, 1, i)

\* the segments that begin with the characters "static"
StaticPrefixed == {"static"}

RECURSIVE indexOfStaticFrom(_, _)
indexOfStaticFrom(s, from) ==
    IF from + 1 >= Len(s) THEN -1
    ELSE IF s[from + 1] = "/" /\ s[from + 2] \in StaticPrefixed THEN from
    ELSE indexOfStaticFrom(s, from + 1)

\* s.indexOf('/static')
indexOfStatic(s) == indexOfStaticFrom(s, 0)

\* new URL(url): fails unless the string starts with a scheme and a host
parseURL(url) ==
    IF Len(url) >= 3 /\ url[1] \in Schemes /\ url[2] = "//"
                     /\ url[3] \notin {"/", "?", "#"}
    THEN LET rest     == substring(url, 3)
             noHash   == beforeFirst(rest, "#")
             path     == beforeFirst(noHash, "?")
         IN  [ok       |-> TRUE,
              hostname |-> url[3],
              pathname |-> IF path = <<>> THEN <<"/">> ELSE path,
              search   |-> substring(noHash, Len(path)),
              hash     |-> substring(rest, Len(noHash))]
    ELSE [ok |-> FALSE]

\* url.replace(/^https?:\/\/[^/]+/, '')
withoutProtocol(url) ==
    IF Len(url) >= 3 /\ url[1] \in Schemes /\ url[2] = "//" /\ url[3] # "/"
    THEN LET slash == indexOfLexeme(url, {"/"}, 2)
         IN  IF slash = -1 THEN <<>> ELSE substring(url, slash)
    ELSE url

\* A plausible slip: the query string is left on the key.
getNormalizedPathKeepQuery(url) ==
    LET urlObj == parseURL(url)
    IN  IF urlObj.ok
        THEN LET path == urlObj.pathname \o urlObj.search
                 staticIndex == indexOfStatic(path)
             IN  IF staticIndex # -1 THEN substring(path, staticIndex) ELSE path
        ELSE LET pathOnly == beforeFirst(withoutProtocol(url), "#")
                 staticIndex == indexOfStatic(pathOnly)
             IN  IF staticIndex # -1 THEN substring(pathOnly, staticIndex) ELSE pathOnly

getNormalizedPath(url) ==
    LET urlObj == parseURL(url)
    IN  IF urlObj.ok
        THEN LET path == urlObj.pathname
                 staticIndex == indexOfStatic(path)
             IN  IF staticIndex # -1 THEN substring(path, staticIndex) ELSE path
        ELSE LET pathOnly == beforeFirst(beforeFirst(withoutProtocol(url), "?"), "#")
                 staticIndex == indexOfStatic(pathOnly)
             IN  IF staticIndex # -1 THEN substring(pathOnly, staticIndex) ELSE pathOnly

getPathWithParams(url) ==
    LET urlObj == parseURL(url)
    IN  IF urlObj.ok
        THEN LET path == urlObj.pathname
                 staticIndex == indexOfStatic(path)
                 cut == IF staticIndex # -1 THEN substring(path, staticIndex) ELSE path
             IN  IF urlObj.search # <<>> THEN cut \o urlObj.search ELSE cut
        ELSE LET pathWithParams == beforeFirst(withoutProtocol(url), "#")
                 staticIndex == indexOfStatic(pathWithParams)
             IN  IF staticIndex # -1 THEN substring(pathWithParams, staticIndex)
                 ELSE pathWithParams

InitKeys ==
    /\ urlA \in KeyURLs
    /\ urlB \in KeyURLs
    /\ keysA = NoView
    /\ keysB = NoView
    /\ IdleDiff /\ IdleTags /\ IdleRes /\ IdleTree /\ IdleAlerts /\ IdleApp

\* the two helpers applied to the URLs of a dev item and of a prod item
DeriveKeys ==
    /\ ~keysA.shown
    /\ keysA' = [shown |-> TRUE, normalized |-> getNormalizedPath(urlA),
                 withParams |-> getPathWithParams(urlA)]
    /\ keysB' = [shown |-> TRUE, normalized |-> getNormalizedPath(urlB),
                 withParams |-> getPathWithParams(urlB)]
    /\ UNCHANGED <<urlA, urlB, diffVars, tagVars, resVars, treeVars, alertVars, appVars>>

NextKeys == DeriveKeys

SpecKeys == InitKeys /\ [][NextKeys]_vars

(***************************************************************************)
(* ResourceTracker: renderCategoryDetails for one category that is not     *)
(* 'images'.  A resource is [url, size]; an absent size is <<>>, a size n  *)
(* is <<n>>.                                                               *)
(***************************************************************************)
DevAppV1 == Href(DevOrigin, <<"static", "js", "app.js">>, "v=1", Undefined)
DevAppV2 == Href(DevOrigin, <<"static", "js", "app.js">>, "v=2", Undefined)
DevApp123 == Href(DevOrigin, <<"static", "js", "app.123.js">>, Undefined, Undefined)
ProdAppV2 == Href(ProdOrigin, <<"static", "js", "app.js">>, "v=2", Undefined)
ProdCdnAppV1 == Href(ProdOrigin, <<"cdn", "static", "js", "app.js">>, "v=1", Undefined)
ProdApp456 == Href(ProdOrigin, <<"static", "js", "app.456.js">>, Undefined, Undefined)

\* the resources the dev and the prod list are drawn from
DevPool ==
    {[url |-> DevAppV1, size |-> <<>>], [url |-> DevAppV1, size |-> <<500>>],
     [url |-> DevAppV2, size |-> <<500>>], [url |-> DevApp123, size |-> <<>>]}
ProdPool ==
    {[url |-> ProdAppV2, size |-> <<>>], [url |-> ProdAppV2, size |-> <<520>>],
     [url |-> ProdCdnAppV1, size |-> <<500>>], [url |-> ProdApp456, size |-> <<>>]}

\* A plausible slip: the first item with a key is kept.
RECURSIVE mapFromItemsFirst(_)
mapFromItemsFirst(items) ==
    IF items = <<>> THEN <<>>
    ELSE LET rest == mapFromItemsFirst(Tail(items))
             k    == getNormalizedPath(Head(items).url)
         IN  [x \in (DOMAIN rest) \cup {k} |-> IF x = k THEN Head(items) ELSE rest[x]]

\* new Map(items.map(item => [getNormalizedPath(item.url), item])): a later item with the
\* same key replaces the earlier one.  The map is [key |-> item].
RECURSIVE mapFromItems(_)
mapFromItems(items) ==
    IF items = <<>> THEN <<>>
    ELSE LET n     == Len(items)
             front == mapFromItems(SubSeq(items, 1, n - 1))
             k     == getNormalizedPath(items[n].url)
         IN  [x \in (DOMAIN front) \cup {k} |-> IF x = k THEN items[n] ELSE front[x]]

\* A plausible slip: the URL difference ignores the query string.
resourceRowNoQuery(item, otherMap) ==
    LET normalizedPath == getNormalizedPath(item.url)
        isUnique       == ~mapHas(otherMap, normalizedPath)
        hasOther       == mapHas(otherMap, normalizedPath)
        hasSizeDiff    == hasOther /\ otherMap[normalizedPath].size # item.size
        hasUrlDiff     == hasOther /\ getNormalizedPath(otherMap[normalizedPath].url)
                                        # getNormalizedPath(item.url)
    IN  [item |-> item, isUnique |-> isUnique, hasOther |-> hasOther,
         other |-> IF hasOther THEN otherMap[normalizedPath] ELSE item,
         hasSizeDiff |-> hasSizeDiff, urlDiffBadge |-> hasUrlDiff /\ ~isUnique]

\* one <li> of a column: the flags computed for an item against the other
\* side's map (other is meaningful only when hasOther)
resourceRow(item, otherMap) ==
    LET normalizedPath == getNormalizedPath(item.url)
        isUnique       == ~mapHas(otherMap, normalizedPath)
        hasOther       == mapHas(otherMap, normalizedPath)
        hasSizeDiff    == hasOther /\ otherMap[normalizedPath].size # item.size
        hasUrlDiff     == hasOther /\ getPathWithParams(otherMap[normalizedPath].url)
                                        # getPathWithParams(item.url)
    IN  [item |-> item, isUnique |-> isUnique, hasOther |-> hasOther,
         other |-> IF hasOther THEN otherMap[normalizedPath] ELSE item,
         hasSizeDiff |-> hasSizeDiff, urlDiffBadge |-> hasUrlDiff /\ ~isUnique]

\* A plausible slip: the common filter tests the dev map instead of the prod map.
renderCategoryDetailsOwnMap(dev, prod) ==
    LET devMap  == mapFromItems(dev)
        prodMap == mapFromItems(prod)
    IN  [shown         |-> TRUE,
         devOnlyItems  |-> SelectSeq(dev, LAMBDA item : ~mapHas(prodMap, getNormalizedPath(item.url))),
         prodOnlyItems |-> SelectSeq(prod, LAMBDA item : ~mapHas(devMap, getNormalizedPath(item.url))),
         commonItems   |-> SelectSeq(dev, LAMBDA item : mapHas(devMap, getNormalizedPath(item.url))),
         devRows       |-> [i \in 1..Len(dev) |-> resourceRow(dev[i], prodMap)],
         prodRows      |-> [i \in 1..Len(prod) |-> resourceRow(prod[i], devMap)]]

renderCategoryDetails(dev, prod) ==
    LET devMap  == mapFromItems(dev)
        prodMap == mapFromItems(prod)
    IN  [shown         |-> TRUE,
         devOnlyItems  |-> SelectSeq(dev, LAMBDA item : ~mapHas(prodMap, getNormalizedPath(item.url))),
         prodOnlyItems |-> SelectSeq(prod, LAMBDA item : ~mapHas(devMap, getNormalizedPath(item.url))),
         commonItems   |-> SelectSeq(dev, LAMBDA item : mapHas(prodMap, getNormalizedPath(item.url))),
         devRows       |-> [i \in 1..Len(dev) |-> resourceRow(dev[i], prodMap)],
         prodRows      |-> [i \in 1..Len(prod) |-> resourceRow(prod[i], devMap)]]

InitRes ==
    /\ devItems \in ListsUpTo(DevPool, MaxItems)
    /\ prodItems \in ListsUpTo(ProdPool, MaxItems)
    /\ expandedCategory = Null
    /\ categoryView = NoView
    /\ IdleDiff /\ IdleTags /\ IdleKeys /\ IdleTree /\ IdleAlerts /\ IdleApp

\* the expand button of a category row, followed by the render it causes
ToggleCategory(key) ==
    /\ viewMode = "summary"
    /\ expandedCategory' = IF expandedCategory = <<key>> THEN Null ELSE <<key>>
    /\ categoryView' = IF expandedCategory' # Null
                       THEN renderCategoryDetails(devItems, prodItems)
                       ELSE NoView
    /\ UNCHANGED <<devItems, prodItems, diffVars, tagVars, keyVars, treeVars, alertVars, appVars>>

NextRes == ToggleCategory("scripts")

SpecRes == InitRes /\ [][NextRes]_vars

(***************************************************************************)
(* ResourceTracker: the tree view.  A tree resource is [url, size,         *)
(* content]; an absent content is <<>>, a content c is <<c>>.  A node is   *)
(* [name, type, path, children, resource]: a file node has no children and *)
(* carries <<resource>>, a folder node carries <<>>.  A node path is the   *)
(* string of its names joined by "/", as lexemes.                          *)
(***************************************************************************)
DevTreeAppV1 ==
    [url |-> Href(DevOrigin, <<"static", "app.js">>, "v=1", Undefined),
     size |-> Null, content |-> <<"x">>]
DevTreeAppV2 ==
    [url |-> Href(DevOrigin, <<"static", "app.js">>, "v=2", Undefined),
     size |-> Null, content |-> Null]
DevTreeCdnApp ==
    [url |-> Href(DevOrigin, <<"cdn", "static", "app.js">>, Undefined, Undefined),
     size |-> Null, content |-> Null]
DevTreeInline == [url |-> <<"inline-script-0">>, size |-> Null, content |-> Null]
ProdTreeApp ==
    [url |-> Href(ProdOrigin, <<"static", "app.js">>, Undefined, Undefined),
     size |-> Null, content |-> <<"y">>]
\* a resource whose URL is the page root, https://prod.site/
ProdTreeRootUrl == [url |-> ProdOrigin \o <<"/">>, size |-> Null, content |-> Null]
ProdTreeInline == [url |-> <<"inline-script-0">>, size |-> Null, content |-> Null]
ProdTreeWps ==
    [url |-> Href(ProdOrigin, <<"WPS", "app.js">>, Undefined, Undefined),
     size |-> Null, content |-> <<"x">>]

\* the scripts and stylesheets the two trees are built from
TreeDevPool == {DevTreeAppV1, DevTreeAppV2, DevTreeCdnApp, DevTreeInline}
TreeProdPool == {ProdTreeApp, ProdTreeRootUrl, ProdTreeInline, ProdTreeWps}

\* the lists without a repeated resource: the analyzer keeps one resource per URL
DistinctListsUpTo(S, n) ==
    {l \in ListsUpTo(S, n) : \A i, j \in 1..Len(l) : i # j => l[i] # l[j]}

\* String.prototype.toLowerCase on a path segment
toLowerCase(part) == IF part = "WPS" THEN "wps" ELSE part

\* url.pathname.split('/').filter(p => p): the segments between the slashes
pathParts(pathname) == SelectSeq(pathname, LAMBDA p : p # "/")

RECURSIVE join(_)
\* parts.join('/')
join(parts) ==
    IF parts = <<>> THEN <<>>
    ELSE IF Len(parts) = 1 THEN parts
    ELSE <<Head(parts), "/">> \o join(Tail(parts))

RECURSIVE findChildFrom(_, _, _, _)
findChildFrom(children, name, type, i) ==
    IF i > Len(children) THEN 0
    ELSE IF children[i].name = name /\ children[i].type = type THEN i
    ELSE findChildFrom(children, name, type, i + 1)

\* children.find(c => c.name === name && c.type === type): its index, or 0
findChild(children, name, type) == findChildFrom(children, name, type, 1)

newFolder(part, relativePath) ==
    [name |-> part, type |-> "folder", path |-> join(relativePath),
     children |-> <<>>, resource |-> <<>>]

\* A plausible slip: the path of a file is cut at '/static' as the normalized key is.
newFileFromStatic(resource, fileName, relativePath) ==
    [name |-> fileName, type |-> "file",
     path |-> join(pathParts(getNormalizedPath(resource.url))),
     children |-> <<>>,
     resource |-> << [url |-> resource.url, size |-> resource.size,
                      content |-> resource.content, fileName |-> fileName,
                      path |-> join(relativePath)] >>]

newFile(resource, fileName, relativePath) ==
    [name |-> fileName, type |-> "file", path |-> join(Append(relativePath, fileName)),
     children |-> <<>>,
     resource |-> << [url |-> resource.url, size |-> resource.size,
                      content |-> resource.content, fileName |-> fileName,
                      path |-> join(relativePath)] >>]

\* A plausible slip: a file whose name is already in the folder is not added.
RECURSIVE addResourceOnce(_, _, _, _, _)
addResourceOnce(node, folders, relativePath, resource, fileName) ==
    IF folders = <<>>
    THEN IF findChild(node.children, fileName, "file") # 0 THEN node
         ELSE [node EXCEPT !.children = Append(@, newFile(resource, fileName, relativePath))]
    ELSE LET part == Head(folders)
             rel  == Append(relativePath, part)
             i    == findChild(node.children, part, "folder")
         IN  IF i = 0
             THEN [node EXCEPT !.children =
                      Append(@, addResourceOnce(newFolder(part, rel), Tail(folders), rel,
                                                resource, fileName))]
             ELSE [node EXCEPT !.children[i] =
                      addResourceOnce(@, Tail(folders), rel, resource, fileName)]

\* A plausible slip: a folder is created for every resource, found or not.
RECURSIVE addResourceNewFolders(_, _, _, _, _)
addResourceNewFolders(node, folders, relativePath, resource, fileName) ==
    IF folders = <<>>
    THEN [node EXCEPT !.children = Append(@, newFile(resource, fileName, relativePath))]
    ELSE LET part == Head(folders)
             rel  == Append(relativePath, part)
         IN  [node EXCEPT !.children =
                  Append(@, addResourceNewFolders(newFolder(part, rel), Tail(folders), rel,
                                                  resource, fileName))]

\* the body of the forEach of buildFolderTree below the denylist test: descend
\* through the folders of the path, creating the missing ones, and push the file
RECURSIVE addResource(_, _, _, _, _)
addResource(node, folders, relativePath, resource, fileName) ==
    IF folders = <<>>
    THEN [node EXCEPT !.children = Append(@, newFile(resource, fileName, relativePath))]
    ELSE LET part == Head(folders)
             rel  == Append(relativePath, part)
             i    == findChild(node.children, part, "folder")
         IN  IF i = 0
             THEN [node EXCEPT !.children =
                      Append(@, addResource(newFolder(part, rel), Tail(folders), rel,
                                            resource, fileName))]
             ELSE [node EXCEPT !.children[i] =
                      addResource(@, Tail(folders), rel, resource, fileName)]

TreeRoot ==
    [name |-> "root", type |-> "folder", path |-> <<"/">>, children |-> <<>>,
     resource |-> <<>>]

\* A plausible slip: a resource whose URL does not parse becomes a file of the
\* root named by its literal URL.
RECURSIVE buildFolderTreeKeepInvalid(_)
buildFolderTreeKeepInvalid(resources) ==
    IF resources = <<>> THEN TreeRoot
    ELSE LET n        == Len(resources)
             root     == buildFolderTreeKeepInvalid(SubSeq(resources, 1, n - 1))
             resource == resources[n]
             url      == parseURL(resource.url)
         IN  IF ~url.ok THEN addResource(root, <<>>, <<>>, resource, resource.url[1])
             ELSE LET parts == pathParts(url.pathname)
                  IN  IF \E i \in 1..Len(parts) : toLowerCase(parts[i]) = "wps" THEN root
                      ELSE IF parts = <<>>
                      THEN addResource(root, <<>>, <<>>, resource, url.hostname)
                      ELSE addResource(root, SubSeq(parts, 1, Len(parts) - 1), <<>>,
                                       resource, parts[Len(parts)])

\* buildFolderTree: the resources are added in list order; a resource whose URL
\* does not parse (the catch block) or has a 'wps' segment is skipped
RECURSIVE buildFolderTree(_)
buildFolderTree(resources) ==
    IF resources = <<>> THEN TreeRoot
    ELSE LET n        == Len(resources)
             root     == buildFolderTree(SubSeq(resources, 1, n - 1))
             resource == resources[n]
             url      == parseURL(resource.url)
         IN  IF ~url.ok THEN root
             ELSE LET parts == pathParts(url.pathname)
                  IN  IF \E i \in 1..Len(parts) : toLowerCase(parts[i]) = "wps" THEN root
                      ELSE IF parts = <<>>
                      THEN addResource(root, <<>>, <<>>, resource, url.hostname)
                      ELSE addResource(root, SubSeq(parts, 1, Len(parts) - 1), <<>>,
                                       resource, parts[Len(parts)])

RECURSIVE findNodeByPath(_, _, _)
\* the node found, as <<node>>, or <<>> for undefined
findNodeByPath(tree, parts, currentIndex) ==
    IF currentIndex >= Len(parts) THEN <<tree>>
    ELSE LET targetName == parts[currentIndex + 1]
             targetType == IF currentIndex = Len(parts) - 1 THEN "file" ELSE "folder"
             i          == findChild(tree.children, targetName, targetType)
         IN  IF i = 0 THEN <<>>
             ELSE IF currentIndex = Len(parts) - 1 THEN <<tree.children[i]>>
             ELSE findNodeByPath(tree.children[i], parts, currentIndex + 1)

\* node.resource?.content || ''
contentOrEmpty(node) ==
    IF node.resource = <<>> THEN ""
    ELSE IF node.resource[1].content = Null THEN ""
    ELSE node.resource[1].content[1]

\* the arguments are <<node>> or <<>> for undefined
hasContentDifference(devNode, prodNode) ==
    IF devNode = <<>> \/ prodNode = <<>> THEN FALSE
    ELSE IF devNode[1].type # "file" \/ prodNode[1].type # "file" THEN FALSE
    ELSE contentOrEmpty(devNode[1]) # contentOrEmpty(prodNode[1])

\* one <li> of the tree view
treeItem(child, otherTree, isDev, level, currentPath, expanded) ==
    LET isFolder     == child.type = "folder"
        otherNode    == findNodeByPath(otherTree, currentPath, 0)
        existsInBoth == otherNode # <<>>
        onlyInThis   == ~existsInBoth
        hasDiff      == hasContentDifference(IF isDev THEN <<child>> ELSE otherNode,
                                             IF isDev THEN otherNode ELSE <<child>>)
    IN  [name |-> child.name, type |-> child.type, path |-> child.path,
         currentPath |-> currentPath, level |-> level,
         isExpanded |-> child.path \in expanded,
         existsInBoth |-> existsInBoth, onlyInThis |-> onlyInThis, hasDiff |-> hasDiff,
         uniqueBadge |-> onlyInThis,
         sameBadge |-> ~isFolder /\ existsInBoth /\ ~hasDiff,
         diffBadge |-> ~isFolder /\ hasDiff,
         resource |-> child.resource, otherNode |-> otherNode]

RECURSIVE renderChildren(_, _, _, _, _, _, _)
RECURSIVE renderFolderTree(_, _, _, _, _, _)
\* the items rendered for children i.. of node, each followed by the items of
\* its own children when it is an expanded folder
renderChildren(node, otherTree, isDev, level, parentPath, expanded, i) ==
    IF i > Len(node.children) THEN <<>>
    ELSE LET child       == node.children[i]
             currentPath == Append(parentPath, child.name)
             item        == treeItem(child, otherTree, isDev, level, currentPath, expanded)
         IN  <<item>>
             \o (IF child.type = "folder" /\ child.path \in expanded
                 THEN renderFolderTree(child, otherTree, isDev, level + 1, currentPath,
                                       expanded)
                 ELSE <<>>)
             \o renderChildren(node, otherTree, isDev, level, parentPath, expanded, i + 1)

\* the items of the <ul> of node, in display order
renderFolderTree(node, otherTree, isDev, level, parentPath, expanded) ==
    renderChildren(node, otherTree, isDev, level, parentPath, expanded, 1)

renderTreeView(dev, prod, expanded) ==
    LET devTree  == buildFolderTree(dev)
        prodTree == buildFolderTree(prod)
    IN  [shown    |-> TRUE,
         devTree  |-> devTree,
         prodTree |-> prodTree,
         devRows  |-> renderFolderTree(devTree, prodTree, TRUE, 0, <<>>, expanded),
         prodRows |-> renderFolderTree(prodTree, devTree, FALSE, 0, <<>>, expanded)]

\* what the component shows for the given state
summaryOf(mode, category) ==
    IF mode = "summary" /\ category # Null
    THEN renderCategoryDetails(devItems, prodItems)
    ELSE NoView
treeOf(mode, expanded) ==
    IF mode = "tree" THEN renderTreeView(devItems, prodItems, expanded) ELSE NoView

InitTree ==
    /\ devItems \in DistinctListsUpTo(TreeDevPool, MaxTreeItems)
    /\ prodItems \in DistinctListsUpTo(TreeProdPool, MaxTreeItems)
    /\ expandedCategory = Null
    /\ categoryView = NoView
    /\ IdleTree
    /\ IdleDiff /\ IdleTags /\ IdleKeys /\ IdleAlerts /\ IdleApp

\* the buttons of the view toggle, followed by the render they cause
SetViewMode(mode) ==
    /\ viewMode' = mode
    /\ categoryView' = summaryOf(mode, expandedCategory)
    /\ treeView' = treeOf(mode, expandedFolders)
    /\ UNCHANGED <<devItems, prodItems, expandedCategory, expandedFolders,
                   diffVars, tagVars, keyVars, alertVars, appVars>>

\* the folders shown in the tree view
shownFolderPaths ==
    IF treeView.shown
    THEN {treeView.devRows[i].path :
              i \in {j \in 1..Len(treeView.devRows) : treeView.devRows[j].type = "folder"}}
         \cup {treeView.prodRows[i].path :
              i \in {j \in 1..Len(treeView.prodRows) : treeView.prodRows[j].type = "folder"}}
    ELSE {}

\* a click on a folder of the tree view, followed by the render it causes
toggleFolder(path) ==
    /\ viewMode = "tree"
    /\ path \in shownFolderPaths
    /\ expandedFolders' = IF path \in expandedFolders
                          THEN expandedFolders \ {path}
                          ELSE expandedFolders \cup {path}
    /\ treeView' = treeOf(viewMode, expandedFolders')
    /\ UNCHANGED <<devItems, prodItems, expandedCategory, categoryView, viewMode,
                   diffVars, tagVars, keyVars, alertVars, appVars>>

FolderPaths == {<<"static">>, <<"cdn">>, <<"cdn", "/", "static">>}

NextTree ==
    \/ ToggleCategory("scripts")
    \/ \E mode \in {"summary", "tree"} : SetViewMode(mode)
    \/ \E path \in FolderPaths : toggleFolder(path)

SpecTree == InitTree /\ [][NextTree]_vars

(***************************************************************************)
(* AlertSystem.  A threshold field is <<>> when it is not set and <<n>>    *)
(* when it is set to n.  An alert is [type, category, message, threshold,  *)
(* actualValue]: the message is its template and numbers, an actualValue   *)
(* is the fraction [num, den] (den = 0 for Infinity), and checkMetaTags    *)
(* leaves threshold and actualValue out (<<>>).                            *)
(***************************************************************************)
DEFAULT_THRESHOLDS ==
    [htmlSizeDiff |-> <<20>>, scriptCountDiff |-> <<5>>, imageCountDiff |-> <<10>>,
     performanceScoreDiff |-> <<10>>, seoScoreDiff |-> <<5>>, brokenLinksMax |-> <<0>>,
     lighthousePerformanceMin |-> <<80>>]

STRICT_THRESHOLDS ==
    [htmlSizeDiff |-> <<10>>, scriptCountDiff |-> <<2>>, imageCountDiff |-> <<5>>,
     performanceScoreDiff |-> <<5>>, seoScoreDiff |-> <<2>>, brokenLinksMax |-> <<0>>,
     lighthousePerformanceMin |-> <<90>>]

ThresholdFields == DOMAIN NoThresholds

\* the configurations an AlertSystem is constructed with: nothing set, the two
\* presets, every field set to the same small number, and the default preset
\* with one field left out
ThresholdConfigs ==
    {NoThresholds, DEFAULT_THRESHOLDS, STRICT_THRESHOLDS}
    \cup {[f \in ThresholdFields |-> <<n>>] : n \in 0..MaxThreshold}
    \cup {[DEFAULT_THRESHOLDS EXCEPT ![f] = Null] : f \in ThresholdFields}

\* sizes, counts and scores; with these no size difference in percent comes
\* within rounding distance of a threshold
Values == 0..MaxValue \cup {10, 18, 100}

Abs(x) == IF x < 0 THEN -x ELSE x

\* JavaScript truthiness of an optional number: !threshold holds for undefined and for 0
truthy(threshold) == threshold # Null /\ threshold[1] # 0

Alert(type, category, template, numbers, threshold, num, den) ==
    [type |-> type, category |-> category,
     message |-> [template |-> template, name |-> "", numbers |-> numbers],
     threshold |-> <<threshold>>, actualValue |-> <<[num |-> num, den |-> den]>>]

\* Math.abs(((prodSize - devSize) / devSize) * 100) > threshold, in IEEE arithmetic:
\* x/0 is Infinity for x # 0, and 0/0 is NaN, which exceeds nothing
diffPercentExceeds(devSize, prodSize, threshold) ==
    IF devSize = 0 THEN prodSize # 0
    ELSE Abs(prodSize - devSize) * 100 > threshold * devSize

checkHTMLSize(th, al, devSize, prodSize) ==
    IF ~truthy(th.htmlSizeDiff) THEN al
    ELSE IF diffPercentExceeds(devSize, prodSize, th.htmlSizeDiff[1])
    THEN Append(al, Alert("warning", "Performance", "HTML size increased by",
                          <<devSize, prodSize>>, th.htmlSizeDiff[1],
                          Abs(prodSize - devSize) * 100, devSize))
    ELSE al

checkScriptCount(th, al, devCount, prodCount) ==
    IF ~truthy(th.scriptCountDiff) THEN al
    ELSE LET diff == prodCount - devCount
         IN  IF Abs(diff) > th.scriptCountDiff[1]
             THEN Append(al, Alert(IF diff > 0 THEN "warning" ELSE "info", "DOM",
                                   IF diff > 0 THEN "Script count increased by"
                                   ELSE "Script count decreased by",
                                   <<Abs(diff), devCount, prodCount>>,
                                   th.scriptCountDiff[1], Abs(diff), 1))
             ELSE al

checkImageCount(th, al, devCount, prodCount) ==
    IF ~truthy(th.imageCountDiff) THEN al
    ELSE LET diff == prodCount - devCount
         IN  IF Abs(diff) > th.imageCountDiff[1]
             THEN Append(al, Alert(IF diff > 0 THEN "warning" ELSE "info", "DOM",
                                   IF diff > 0 THEN "Image count increased by"
                                   ELSE "Image count decreased by",
                                   <<Abs(diff), devCount, prodCount>>,
                                   th.imageCountDiff[1], Abs(diff), 1))
             ELSE al

\* A plausible slip: the list is kept in severity order, errors first.
checkPerformanceScoreErrorsFirst(th, al, devScore, prodScore) ==
    IF ~truthy(th.performanceScoreDiff) THEN al
    ELSE LET diff == devScore - prodScore
         IN  IF diff > th.performanceScoreDiff[1]
             THEN <<Alert("error", "Performance", "Performance score decreased by",
                          <<diff, devScore, prodScore>>,
                          th.performanceScoreDiff[1], diff, 1)>> \o al
             ELSE al

checkPerformanceScore(th, al, devScore, prodScore) ==
    IF ~truthy(th.performanceScoreDiff) THEN al
    ELSE LET diff == devScore - prodScore
         IN  IF diff > th.performanceScoreDiff[1]
             THEN Append(al, Alert("error", "Performance", "Performance score decreased by",
                                   <<diff, devScore, prodScore>>,
                                   th.performanceScoreDiff[1], diff, 1))
             ELSE al

checkSEOScore(th, al, devScore, prodScore) ==
    IF ~truthy(th.seoScoreDiff) THEN al
    ELSE LET diff == devScore - prodScore
         IN  IF diff > th.seoScoreDiff[1]
             THEN Append(al, Alert("error", "SEO", "SEO score decreased by",
                                   <<diff, devScore, prodScore>>,
                                   th.seoScoreDiff[1], diff, 1))
             ELSE al

\* A plausible slip: a maximum that is not set counts as 0.
checkBrokenLinksDefaultZero(th, al, brokenCount) ==
    LET max == IF th.brokenLinksMax = Null THEN 0 ELSE th.brokenLinksMax[1]
    IN  IF brokenCount > max
        THEN Append(al, Alert("error", "Links", "Found broken link(s)", <<brokenCount, max>>,
                              max, brokenCount, 1))
        ELSE al

checkBrokenLinks(th, al, brokenCount) ==
    IF th.brokenLinksMax = Null THEN al
    ELSE IF brokenCount > th.brokenLinksMax[1]
    THEN Append(al, Alert("error", "Links", "Found broken link(s)",
                          <<brokenCount, th.brokenLinksMax[1]>>,
                          th.brokenLinksMax[1], brokenCount, 1))
    ELSE al

checkLighthousePerformance(th, al, score) ==
    IF ~truthy(th.lighthousePerformanceMin) THEN al
    ELSE IF score < th.lighthousePerformanceMin[1]
    THEN Append(al, Alert("error", "Performance", "Lighthouse performance score is below minimum",
                          <<score, th.lighthousePerformanceMin[1]>>,
                          th.lighthousePerformanceMin[1], score, 1))
    ELSE al

\* JavaScript truthiness of a meta value: undefined and '' are falsy
present(value) == value # Undefined /\ value # ""

MetaAlert(type, template, metaName) ==
    [type |-> type, category |-> "SEO",
     message |-> [template |-> template, name |-> metaName, numbers |-> <<>>],
     threshold |-> <<>>, actualValue |-> <<>>]

\* A plausible slip: a difference is reported only when both values are present.
RECURSIVE checkMetaTagsBothPresent(_, _, _, _)
checkMetaTagsBothPresent(al, devM, prodM, i) ==
    IF i > Len(criticalMetas) THEN al
    ELSE LET metaName  == criticalMetas[i]
             devValue_  == devM[metaName]
             prodValue_ == prodM[metaName]
             next == IF present(devValue_) /\ ~present(prodValue_)
                     THEN Append(al, MetaAlert("error", "Critical meta tag missing in production",
                                               metaName))
                     ELSE IF devValue_ # prodValue_ /\ present(prodValue_) /\ present(devValue_)
                     THEN Append(al, MetaAlert("info", "Meta tag differs between dev and production",
                                               metaName))
                     ELSE al
         IN  checkMetaTagsBothPresent(next, devM, prodM, i + 1)

\* criticalMetas.forEach from index i on
RECURSIVE checkMetaTags(_, _, _, _)
checkMetaTags(al, devM, prodM, i) ==
    IF i > Len(criticalMetas) THEN al
    ELSE LET metaName  == criticalMetas[i]
             devValue_  == devM[metaName]
             prodValue_ == prodM[metaName]
             next == IF present(devValue_) /\ ~present(prodValue_)
                     THEN Append(al, MetaAlert("error", "Critical meta tag missing in production",
                                               metaName))
                     ELSE IF devValue_ # prodValue_ /\ present(prodValue_)
                     THEN Append(al, MetaAlert("info", "Meta tag differs between dev and production",
                                               metaName))
                     ELSE al
         IN  checkMetaTags(next, devM, prodM, i + 1)

IdleMetas == devMetas = NoMetas /\ prodMetas = NoMetas

\* new AlertSystem(thresholds), and the values the checks will be given
InitAlerts ==
    /\ thresholds \in ThresholdConfigs
    /\ alerts = <<>>
    /\ call = "none" /\ calls = 0
    /\ devValue \in Values /\ prodValue \in Values
    /\ IdleMetas
    /\ IdleDiff /\ IdleTags /\ IdleKeys /\ IdleRes /\ IdleTree /\ IdleApp

\* one invocation of a check on the values at hand
Invoke(method, result) ==
    /\ calls < MaxCalls
    /\ alerts' = result
    /\ call' = method
    /\ calls' = calls + 1
    /\ UNCHANGED <<thresholds, devValue, prodValue, devMetas, prodMetas,
                   diffVars, tagVars, keyVars, resVars, treeVars, appVars>>

CheckHTMLSize ==
    Invoke("checkHTMLSize", checkHTMLSize(thresholds, alerts, devValue, prodValue))
CheckScriptCount ==
    Invoke("checkScriptCount", checkScriptCount(thresholds, alerts, devValue, prodValue))
CheckImageCount ==
    Invoke("checkImageCount", checkImageCount(thresholds, alerts, devValue, prodValue))
CheckPerformanceScore ==
    Invoke("checkPerformanceScore",
           checkPerformanceScore(thresholds, alerts, devValue, prodValue))
CheckSEOScore ==
    Invoke("checkSEOScore", checkSEOScore(thresholds, alerts, devValue, prodValue))
CheckBrokenLinks ==
    Invoke("checkBrokenLinks", checkBrokenLinks(thresholds, alerts, prodValue))
CheckLighthousePerformance ==
    Invoke("checkLighthousePerformance",
           checkLighthousePerformance(thresholds, alerts, prodValue))
CheckMetaTags ==
    Invoke("checkMetaTags", checkMetaTags(alerts, devMetas, prodMetas, 1))

NextAlerts ==
    \/ CheckHTMLSize
    \/ CheckScriptCount
    \/ CheckImageCount
    \/ CheckPerformanceScore
    \/ CheckSEOScore
    \/ CheckBrokenLinks
    \/ CheckLighthousePerformance

SpecAlerts == InitAlerts /\ [][NextAlerts]_vars

\* the values a critical meta tag is given: absent, empty, or one of two texts
MetaValues == {Undefined, "", "a", "b"}
MetaRecords == [{criticalMetas[i] : i \in 1..3} -> MetaValues]

InitMeta ==
    /\ thresholds \in {NoThresholds, DEFAULT_THRESHOLDS}
    /\ alerts = <<>>
    /\ call = "none" /\ calls = 0
    /\ devValue = 0 /\ prodValue = 0
    /\ devMetas \in MetaRecords
    /\ prodMetas \in MetaRecords
    /\ IdleDiff /\ IdleTags /\ IdleKeys /\ IdleRes /\ IdleTree /\ IdleApp

NextMeta == CheckMetaTags

SpecMeta == InitMeta /\ [][NextMeta]_vars

(***************************************************************************)
(* Line differ and side-by-side aligner: properties                        *)
(***************************************************************************)
\* The values of the parts of a diff that satisfy keep, concatenated in order.
keptText(diff, keep(_)) ==
    concat([i \in 1..Len(SelectSeq(diff, keep)) |-> SelectSeq(diff, keep)[i].value])

\* C1: in the segment sequence exposed as `all`, the unchanged and removed
\* segments concatenated in order give the first text exactly, and the
\* unchanged and added segments give the second text exactly.
C1_RoundTrip ==
    diffDone =>
        /\ keptText(diffResult.all, LAMBDA part : ~part.added) = html1
        /\ keptText(diffResult.all, LAMBDA part : ~part.removed) = html2

C1_Witness ==
    /\ diffDone
    /\ html1 = ScenarioA
    /\ html2 = ScenarioB
    /\ \E i, j, k \in 1..Len(diffResult.all) :
          /\ diffResult.all[i].removed
          /\ diffResult.all[j].added
          /\ ~diffResult.all[k].added /\ ~diffResult.all[k].removed

LeftPopulated(row) ==
    row.prodType # "empty" /\ row.prodLineNum # Null /\ row.prodContent # <<>>
RightPopulated(row) ==
    row.devType # "empty" /\ row.devLineNum # Null /\ row.devContent # <<>>
LeftEmptyRow(row) ==
    row.prodType = "empty" /\ row.prodLineNum = Null /\ RightPopulated(row)
RightEmptyRow(row) ==
    row.devType = "empty" /\ row.devLineNum = Null /\ LeftPopulated(row)
BothNormalRow(row) ==
    /\ LeftPopulated(row) /\ RightPopulated(row)
    /\ row.prodContent = row.devContent
    /\ row.prodType = "normal" /\ row.devType = "normal"

\* C2: every emitted row is exactly one of: left empty with null line number
\* and right populated; right empty with null line number and left populated;
\* both populated with identical text and both kinds normal.
C2_RowShape ==
    sideDone =>
        \A i \in 1..Len(sideBySideDiff) :
            LET row == sideBySideDiff[i]
            IN  Cardinality({s \in {"left", "right", "both"} :
                    \/ s = "left" /\ LeftEmptyRow(row)
                    \/ s = "right" /\ RightEmptyRow(row)
                    \/ s = "both" /\ BothNormalRow(row)}) = 1

C2_Witness ==
    /\ sideDone
    /\ \E i, j, k \in 1..Len(sideBySideDiff) :
          /\ LeftEmptyRow(sideBySideDiff[i])
          /\ RightEmptyRow(sideBySideDiff[j])
          /\ BothNormalRow(sideBySideDiff[k])

RECURSIVE lineCount(_)
\* the number of lines of the segments of a diff
lineCount(diff) == IF diff = <<>> THEN 0 ELSE Head(diff).count + lineCount(Tail(diff))

\* C3: the number of rows equals the number of lines of the equal, delete and
\* insert segments of the line diff, and every row has a non-empty side.
C3_RowCount ==
    sideDone =>
        /\ Len(sideBySideDiff) = lineCount(diffLines(html1, html2))
        /\ \A i \in 1..Len(sideBySideDiff) :
              LeftPopulated(sideBySideDiff[i]) \/ RightPopulated(sideBySideDiff[i])

\* A one-line delete segment at k immediately followed by a one-line insert
\* segment, both lines being non-blank.
IsReplacementAt(diff, k) ==
    /\ k + 1 <= Len(diff)
    /\ diff[k].removed /\ diff[k].count = 1
    /\ diff[k + 1].added /\ diff[k + 1].count = 1
    /\ Len(nonBlankLines(diff[k].value)) = 1
    /\ Len(nonBlankLines(diff[k + 1].value)) = 1

RECURSIVE rowsBefore(_, _)
\* the number of rows emitted for the parts before part k
rowsBefore(diff, k) ==
    IF k <= 1 THEN 0
    ELSE Len(nonBlankLines(diff[k - 1].value)) + rowsBefore(diff, k - 1)

\* C4 as stated: a replaced line gives a single row with the removed line on
\* the left and the added line on the right; a,b,c against a,x,c gives exactly
\* 3 rows, of which row 2 is 'b' (removed) / 'x' (added).
C4_ReplacementSingleRow ==
    sideDone =>
        LET diff == diffLines(html1, html2)
        IN  /\ \A k \in 1..Len(diff) :
                  IsReplacementAt(diff, k) =>
                      \E i \in 1..Len(sideBySideDiff) :
                          /\ sideBySideDiff[i].prodType = "removed"
                          /\ sideBySideDiff[i].prodContent = nonBlankLines(diff[k].value)[1]
                          /\ sideBySideDiff[i].devType = "added"
                          /\ sideBySideDiff[i].devContent = nonBlankLines(diff[k + 1].value)[1]
            /\ (html1 = ScenarioA /\ html2 = ScenarioB) =>
                  /\ Len(sideBySideDiff) = 3
                  /\ sideBySideDiff[2].prodContent = <<"b">>
                  /\ sideBySideDiff[2].prodType = "removed"
                  /\ sideBySideDiff[2].devContent = <<"x">>
                  /\ sideBySideDiff[2].devType = "added"

\* C4 amended: a replaced line gives two consecutive rows, the removed line
\* against an empty right side and then an empty left side against the added
\* line; a,b,c against a,x,c gives exactly 4 rows, rows 2 and 3 being these.
C4_ReplacementTwoRows ==
    sideDone =>
        LET diff == diffLines(html1, html2)
        IN  /\ \A k \in 1..Len(diff) :
                  IsReplacementAt(diff, k) =>
                      LET i == rowsBefore(diff, k) + 1
                      IN  /\ i + 1 <= Len(sideBySideDiff)
                          /\ sideBySideDiff[i].prodType = "removed"
                          /\ sideBySideDiff[i].prodContent = nonBlankLines(diff[k].value)[1]
                          /\ RightEmptyRow(sideBySideDiff[i])
                          /\ sideBySideDiff[i + 1].devType = "added"
                          /\ sideBySideDiff[i + 1].devContent = nonBlankLines(diff[k + 1].value)[1]
                          /\ LeftEmptyRow(sideBySideDiff[i + 1])
            /\ (html1 = ScenarioA /\ html2 = ScenarioB) =>
                  /\ Len(sideBySideDiff) = 4
                  /\ sideBySideDiff[2].prodContent = <<"b">>
                  /\ sideBySideDiff[2].prodType = "removed"
                  /\ sideBySideDiff[3].devContent = <<"x">>
                  /\ sideBySideDiff[3].devType = "added"

C4_Witness ==
    /\ sideDone
    /\ html1 = ScenarioA
    /\ html2 = ScenarioB
    /\ IsReplacementAt(diffLines(html1, html2), 2)
    /\ Len(sideBySideDiff) = 4

(***************************************************************************)
(* Tag-detail reconciler: properties                                       *)
(***************************************************************************)
KeySet(details) == {JSONstringify(details[i]) : i \in 1..Len(details)}

\* the number of positions of list that hold d
Occurrences(list, d) == Cardinality({i \in 1..Len(list) : list[i] = d})

\* C5: devOnly is exactly the elements of the dev list whose key is absent from
\* the prod list's key set, so devOnly and the elements whose key is found
\* partition the dev list (prodOnly symmetric); the positional pairing has
\* length min(len dev, len prod) and entry i pairs dev[i] with prod[i].
C5_TagReconcile ==
    tagView.shown =>
        LET found(list, other) ==
                SelectSeq(list, LAMBDA d : JSONstringify(d) \in KeySet(other))
        IN  /\ tagView.devOnly =
                  SelectSeq(devDetails, LAMBDA d : JSONstringify(d) \notin KeySet(prodDetails))
            /\ tagView.prodOnly =
                  SelectSeq(prodDetails, LAMBDA d : JSONstringify(d) \notin KeySet(devDetails))
            /\ \A d \in TagDetails :
                  /\ Occurrences(tagView.devOnly, d) + Occurrences(found(devDetails, prodDetails), d)
                        = Occurrences(devDetails, d)
                  /\ Occurrences(tagView.devOnly, d) = 0
                        \/ Occurrences(found(devDetails, prodDetails), d) = 0
                  /\ Occurrences(tagView.prodOnly, d) + Occurrences(found(prodDetails, devDetails), d)
                        = Occurrences(prodDetails, d)
                  /\ Occurrences(tagView.prodOnly, d) = 0
                        \/ Occurrences(found(prodDetails, devDetails), d) = 0
            /\ Len(tagView.common) = Min(Len(devDetails), Len(prodDetails))
            /\ \A i \in 1..Len(tagView.common) :
                  /\ tagView.common[i].dev = devDetails[i]
                  /\ tagView.common[i].prod = prodDetails[i]

\* a dev-only element, a shared element placed at different positions, and a
\* positional pair whose keys differ
C5_Witness ==
    /\ tagView.shown
    /\ Len(devDetails) = 2 /\ Len(prodDetails) = 1
    /\ Len(tagView.devOnly) = 1
    /\ devDetails[2] = prodDetails[1]
    /\ Len(tagView.common) = 1
    /\ JSONstringify(tagView.common[1].dev) # JSONstringify(tagView.common[1].prod)

(***************************************************************************)
(* Resource keys: properties                                               *)
(***************************************************************************)
HasOrigin(u) == Len(u) >= 3 /\ u[1] \in Schemes /\ u[2] = "//"
AfterOrigin(u) == IF HasOrigin(u) THEN SubSeq(u, 4, Len(u)) ELSE u
\* everything before the query string and the fragment
UpToPath(u) == beforeFirst(beforeFirst(u, "#"), "?")
\* the query string, without the fragment
QueryOf(u) == SubSeq(beforeFirst(u, "#"), Len(UpToPath(u)) + 1, Len(beforeFirst(u, "#")))

DifferOnlyInOrigin(u, v) == HasOrigin(u) /\ HasOrigin(v) /\ AfterOrigin(u) = AfterOrigin(v)
DifferOnlyInQueryOrFragment(u, v) == UpToPath(u) = UpToPath(v)

\* C6: the same URL always gives the same key; two URLs that differ only in
\* scheme/host or only in query string/fragment give the same normalized key,
\* and their comparison keys differ only when their query strings differ.
C6_KeyNormalization ==
    keysA.shown =>
        /\ urlA = urlB => keysA = keysB
        /\ (DifferOnlyInOrigin(urlA, urlB) \/ DifferOnlyInQueryOrFragment(urlA, urlB)) =>
              /\ keysA.normalized = keysB.normalized
              /\ keysA.withParams # keysB.withParams => QueryOf(urlA) # QueryOf(urlB)

C6_Witness ==
    /\ keysA.shown
    /\ urlA = Href(DevOrigin, <<"cdn", "static">>, "v=1", Undefined)
    /\ urlB = Href(DevOrigin, <<"cdn", "static">>, "v=2", "top")
    /\ keysA.normalized = <<"/", "static">>
    /\ keysB.normalized = <<"/", "static">>
    /\ keysA.withParams # keysB.withParams

(***************************************************************************)
(* Resource reconciler: properties                                         *)
(***************************************************************************)
InSeq(list, x) == \E i \in 1..Len(list) : list[i] = x
SameKey(r1, r2) == getNormalizedPath(r1.url) = getNormalizedPath(r2.url)

\* C7: every dev resource is in exactly one of devOnlyItems and commonItems,
\* and every prod resource is either in prodOnlyItems or has its normalized
\* key matched on the dev side.
C7_Partition ==
    categoryView.shown =>
        /\ \A i \in 1..Len(devItems) :
              InSeq(categoryView.devOnlyItems, devItems[i])
                  # InSeq(categoryView.commonItems, devItems[i])
        /\ Len(categoryView.devOnlyItems) + Len(categoryView.commonItems) = Len(devItems)
        /\ \A j \in 1..Len(prodItems) :
              InSeq(categoryView.prodOnlyItems, prodItems[j])
                  # (\E i \in 1..Len(devItems) : SameKey(devItems[i], prodItems[j]))

C7_Witness ==
    /\ categoryView.shown
    /\ Len(devItems) = 2 /\ Len(prodItems) = 2
    /\ Len(categoryView.devOnlyItems) = 1
    /\ Len(categoryView.commonItems) = 1
    /\ Len(categoryView.prodOnlyItems) = 1

\* list[i] and list[j] are distinct resources of one side with the same
\* normalized key, list[i] being the first with that key
DuplicateAt(list, i, j) ==
    /\ i < j
    /\ SameKey(list[i], list[j])
    /\ list[i] # list[j]
    /\ \A h \in 1..(i - 1) : ~SameKey(list[h], list[i])

\* the last position of list that has the key of list[i]
LastWithKey(list, i) ==
    CHOOSE j \in 1..Len(list) :
        /\ SameKey(list[i], list[j])
        /\ \A h \in (j + 1)..Len(list) : ~SameKey(list[i], list[h])

AllRows == [i \in 1..(Len(devItems) + Len(prodItems)) |->
               IF i <= Len(devItems) THEN categoryView.devRows[i]
               ELSE categoryView.prodRows[i - Len(devItems)]]

\* C9: for a pair matched by normalized key a size difference is flagged iff
\* both resources have a known size and the sizes are unequal.
C9_SizeDiffNeedsBothSizes ==
    categoryView.shown =>
        \A i \in 1..Len(AllRows) :
            LET row == AllRows[i]
            IN  row.hasOther =>
                    (row.hasSizeDiff <=>
                        (/\ row.item.size # <<>>
                         /\ row.other.size # <<>>
                         /\ row.item.size # row.other.size))

\* the file name of a URL: the last segment of its path
LastSegment(u) == IF UpToPath(u) = <<>> THEN <<>> ELSE <<UpToPath(u)[Len(UpToPath(u))]>>
SamePathDifferentQuery(u, v) ==
    /\ AfterOrigin(UpToPath(u)) = AfterOrigin(UpToPath(v))
    /\ QueryOf(u) # QueryOf(v)

\* C10: resources with the same path but different query strings are common
\* and carry the URL-difference flag; resources whose file names differ are
\* never paired (alone in their lists they are dev-only and prod-only); a
\* matched pair carries the URL-difference flag iff its comparison keys differ.
C10_UrlDiff ==
    categoryView.shown =>
        /\ \A i \in 1..Len(devItems), j \in 1..Len(prodItems) :
              /\ SamePathDifferentQuery(devItems[i].url, prodItems[j].url) =>
                    /\ InSeq(categoryView.commonItems, devItems[i])
                    /\ ~InSeq(categoryView.devOnlyItems, devItems[i])
                    /\ ~InSeq(categoryView.prodOnlyItems, prodItems[j])
                    /\ categoryView.devRows[i].other = prodItems[j]
                          => categoryView.devRows[i].urlDiffBadge
                    /\ categoryView.prodRows[j].other = devItems[i]
                          => categoryView.prodRows[j].urlDiffBadge
              /\ LastSegment(devItems[i].url) # LastSegment(prodItems[j].url) =>
                    /\ ~(categoryView.devRows[i].hasOther
                            /\ categoryView.devRows[i].other = prodItems[j])
                    /\ ~(categoryView.prodRows[j].hasOther
                            /\ categoryView.prodRows[j].other = devItems[i])
                    /\ (Len(devItems) = 1 /\ Len(prodItems) = 1) =>
                          /\ categoryView.devOnlyItems = devItems
                          /\ categoryView.prodOnlyItems = prodItems
                          /\ categoryView.commonItems = <<>>
        /\ \A i \in 1..Len(AllRows) :
              LET row == AllRows[i]
              IN  row.urlDiffBadge <=>
                      (/\ row.hasOther
                       /\ getPathWithParams(row.item.url) # getPathWithParams(row.other.url))

C10_Witness ==
    /\ categoryView.shown
    /\ Len(devItems) = 2 /\ Len(prodItems) = 2
    /\ devItems[1].url = DevAppV1
    /\ prodItems[1].url = ProdAppV2
    /\ devItems[2].url = DevApp123
    /\ prodItems[2].url = ProdApp456
    /\ categoryView.devRows[1].urlDiffBadge
    /\ categoryView.commonItems = <<devItems[1]>>
    /\ categoryView.devOnlyItems = <<devItems[2]>>
    /\ categoryView.prodOnlyItems = <<prodItems[2]>>

(***************************************************************************)
(* Folder tree: properties                                                 *)
(***************************************************************************)
Unparseable(item) == ~parseURL(item.url).ok

RECURSIVE fileNodes(_)
RECURSIVE fileNodesFrom(_, _)
\* the file nodes of the subtree of node, in display order
fileNodes(node) ==
    IF node.type = "file" THEN <<node>> ELSE fileNodesFrom(node.children, 1)
fileNodesFrom(children, i) ==
    IF i > Len(children) THEN <<>>
    ELSE fileNodes(children[i]) \o fileNodesFrom(children, i + 1)

\* the file nodes of tree that carry the resource with the URL of item
NodesCarrying(tree, item) ==
    SelectSeq(fileNodes(tree), LAMBDA node : node.resource[1].url = item.url)

\* In the summary view a resource whose URL does not parse is keyed by its
\* literal URL string and counted in exactly one of only-this-side and common.
UnparseableCounted ==
    categoryView.shown =>
        /\ \A i \in 1..Len(devItems) :
              Unparseable(devItems[i]) =>
                  /\ getNormalizedPath(devItems[i].url) = devItems[i].url
                  /\ InSeq(categoryView.devOnlyItems, devItems[i])
                         # InSeq(categoryView.commonItems, devItems[i])
                  /\ InSeq(categoryView.commonItems, devItems[i])
                         <=> \E j \in 1..Len(prodItems) : prodItems[j].url = devItems[i].url
        /\ \A j \in 1..Len(prodItems) :
              Unparseable(prodItems[j]) =>
                  /\ getNormalizedPath(prodItems[j].url) = prodItems[j].url
                  /\ InSeq(categoryView.prodOnlyItems, prodItems[j])
                         # (\E i \in 1..Len(devItems) : SameKey(devItems[i], prodItems[j]))

SegmentsOf(item) == SelectSeq(parseURL(item.url).pathname, LAMBDA lexeme : lexeme # "/")

\* the segments that name the folders of the resource: all but the last
FoldersOf(item) ==
    IF SegmentsOf(item) = <<>> THEN <<>>
    ELSE SubSeq(SegmentsOf(item), 1, Len(SegmentsOf(item)) - 1)

\* the URL of item parses and one of its path segments is 'wps' in any case
Denylisted(item) ==
    /\ ~Unparseable(item)
    /\ \E k \in 1..Len(SegmentsOf(item)) : SegmentsOf(item)[k] \in {"wps", "WPS"}

RECURSIVE childrenAt(_, _)
RECURSIVE childrenAtFrom(_, _, _)
\* the children of the folder nodes reached from node by descending through
\* folder nodes named by the successive folders
childrenAt(node, folders) ==
    IF folders = <<>> THEN node.children ELSE childrenAtFrom(node.children, folders, 1)
childrenAtFrom(children, folders, i) ==
    IF i > Len(children) THEN <<>>
    ELSE (IF children[i].type = "folder" /\ children[i].name = Head(folders)
          THEN childrenAt(children[i], Tail(folders))
          ELSE <<>>)
         \o childrenAtFrom(children, folders, i + 1)

\* item is carried by exactly one file node of tree, and that node is a child
\* of the folder reached by descending along the folders of the URL path of
\* item, named by the last segment of that path when it has one
InOneFileNode(tree, item) ==
    /\ Len(NodesCarrying(tree, item)) = 1
    /\ ~Unparseable(item)
    /\ SelectSeq(childrenAt(tree, FoldersOf(item)),
                 LAMBDA node : /\ node.type = "file"
                               /\ node.resource[1].url = item.url
                               /\ SegmentsOf(item) # <<>>
                                      => node.name = SegmentsOf(item)[Len(SegmentsOf(item))])
           = NodesCarrying(tree, item)

ShownFileNodes == fileNodes(treeView.devTree) \o fileNodes(treeView.prodTree)

\* C13 as stated: the path of each file node is the URL path of its resource
\* cut at '/static' as the normalized key is (without the leading slash), so
\* a dev and a prod resource with equal normalized keys have equal node paths.
C13_PathIsNormalizedKey ==
    treeView.shown =>
        /\ \A k \in 1..Len(ShownFileNodes) :
              <<"/">> \o ShownFileNodes[k].path
                  = getNormalizedPath(ShownFileNodes[k].resource[1].url)
        /\ \A d \in 1..Len(fileNodes(treeView.devTree)) :
           \A p \in 1..Len(fileNodes(treeView.prodTree)) :
              LET devNode  == fileNodes(treeView.devTree)[d]
                  prodNode == fileNodes(treeView.prodTree)[p]
              IN  SameKey(devNode.resource[1], prodNode.resource[1])
                      => devNode.path = prodNode.path

\* C13 amended: the path of each file node is the whole URL path of its
\* resource (without the leading slash and without any cut at '/static'), or
\* the host name when the URL path has no segment, and its resource.path is
\* the path of its folder; so a dev and a prod resource whose URL paths have
\* a segment have equal node paths iff their URL paths are equal.
C13_PathIsUrlPath ==
    treeView.shown =>
        /\ \A k \in 1..Len(ShownFileNodes) :
              LET node == ShownFileNodes[k]
                  url  == parseURL(node.resource[1].url)
                  segs == SegmentsOf(node.resource[1])
              IN  /\ url.ok
                  /\ IF segs = <<>>
                     THEN node.path = <<url.hostname>> /\ node.name = url.hostname
                     ELSE <<"/">> \o node.path = url.pathname /\ node.name = segs[Len(segs)]
                  /\ node.resource[1].fileName = node.name
                  /\ <<"/">> \o node.resource[1].path \o <<"/">> \o <<node.name>>
                        = <<"/">> \o node.path
                     \/ (node.resource[1].path = <<>> /\ node.path = <<node.name>>)
        /\ \A d \in 1..Len(fileNodes(treeView.devTree)) :
           \A p \in 1..Len(fileNodes(treeView.prodTree)) :
              LET devNode  == fileNodes(treeView.devTree)[d]
                  prodNode == fileNodes(treeView.prodTree)[p]
              IN  (SegmentsOf(devNode.resource[1]) # <<>>
                      /\ SegmentsOf(prodNode.resource[1]) # <<>>)
                  => (devNode.path = prodNode.path
                         <=> parseURL(devNode.resource[1].url).pathname
                                 = parseURL(prodNode.resource[1].url).pathname)

C13_Witness ==
    /\ treeView.shown
    /\ devItems = <<DevTreeCdnApp>>
    /\ prodItems = <<ProdTreeApp>>
    /\ SameKey(DevTreeCdnApp, ProdTreeApp)
    /\ fileNodes(treeView.devTree)[1].path = <<"cdn", "/", "static", "/", "app.js">>
    /\ fileNodes(treeView.prodTree)[1].path = <<"static", "/", "app.js">>

RECURSIVE folderNodes(_)
RECURSIVE folderNodesFrom(_, _)
\* the folder nodes of the subtree of node, node included
folderNodes(node) ==
    IF node.type = "file" THEN <<>> ELSE <<node>> \o folderNodesFrom(node.children, 1)
folderNodesFrom(children, i) ==
    IF i > Len(children) THEN <<>>
    ELSE folderNodes(children[i]) \o folderNodesFrom(children, i + 1)

\* the folder nodes of the two trees shown, the roots included
ShownFolderNodes == folderNodes(treeView.devTree) \o folderNodes(treeView.prodTree)

\* C14 as stated: the children of every folder node have pairwise distinct
\* (name, kind) pairs.
C14_DistinctNameKind ==
    treeView.shown =>
        \A k \in 1..Len(ShownFolderNodes) :
            LET children == ShownFolderNodes[k].children
            IN  \A i, j \in 1..Len(children) :
                    i # j => <<children[i].name, children[i].type>>
                                 # <<children[j].name, children[j].type>>

\* C14 amended: the folder children of every folder node have pairwise
\* distinct names, so resources sharing a directory share one folder node;
\* the file children are one per resource, and two of them have the same name
\* exactly when their resources have the same URL path.
C14_DistinctFolders ==
    treeView.shown =>
        \A k \in 1..Len(ShownFolderNodes) :
            LET children == ShownFolderNodes[k].children
            IN  \A i, j \in 1..Len(children) :
                    i # j =>
                        /\ (children[i].type = "folder" /\ children[j].type = "folder")
                               => children[i].name # children[j].name
                        /\ (children[i].type = "file" /\ children[j].type = "file")
                               => /\ children[i].resource[1].url # children[j].resource[1].url
                                  /\ children[i].name = children[j].name
                                        <=> parseURL(children[i].resource[1].url).pathname
                                              = parseURL(children[j].resource[1].url).pathname

C14_Witness ==
    /\ treeView.shown
    /\ devItems = <<DevTreeAppV1, DevTreeAppV2>>
    /\ Len(treeView.devTree.children) = 1
    /\ treeView.devTree.children[1].name = "static"
    /\ Len(treeView.devTree.children[1].children) = 2
    /\ treeView.devTree.children[1].children[1].name = "app.js"
    /\ treeView.devTree.children[1].children[2].name = "app.js"

\* tree has a node of the given kind at the relative path given by its names
HasNodeAt(tree, path, kind) ==
    \E k \in 1..Len(childrenAt(tree, SubSeq(path, 1, Len(path) - 1))) :
        LET node == childrenAt(tree, SubSeq(path, 1, Len(path) - 1))[k]
        IN  node.name = path[Len(path)] /\ node.type = kind

\* C15: a child shown in the tree view, file or folder, carries the badge
\* 'Only in Dev' / 'Only in Prod' iff the other tree has no node of the same
\* kind at the same relative path.
C15_UniqueIffAbsentInOther ==
    treeView.shown =>
        /\ \A k \in 1..Len(treeView.devRows) :
              LET row == treeView.devRows[k]
              IN  row.uniqueBadge <=> ~HasNodeAt(treeView.prodTree, row.currentPath, row.type)
        /\ \A k \in 1..Len(treeView.prodRows) :
              LET row == treeView.prodRows[k]
              IN  row.uniqueBadge <=> ~HasNodeAt(treeView.devTree, row.currentPath, row.type)

\* the file rows of the tree view whose file is found in the other tree
MatchedFileRows ==
    SelectSeq(treeView.devRows \o treeView.prodRows,
              LAMBDA row : row.type = "file" /\ row.otherNode # <<>>)

\* C16: a file matched in the other tree is flagged as different iff the
\* content of both resources is present and the two strings differ; when the
\* content is absent on either side no difference is flagged.
C16_DiffNeedsBothContents ==
    treeView.shown =>
        \A k \in 1..Len(MatchedFileRows) :
            LET here  == MatchedFileRows[k].resource[1].content
                there == MatchedFileRows[k].otherNode[1].resource[1].content
            IN  /\ MatchedFileRows[k].hasDiff <=> (here # Null /\ there # Null /\ here # there)
                /\ MatchedFileRows[k].diffBadge = MatchedFileRows[k].hasDiff

(***************************************************************************)
(* AlertSystem: properties                                                 *)
(***************************************************************************)
\* the threshold field that gates each check
FieldOf ==
    [checkHTMLSize |-> "htmlSizeDiff", checkScriptCount |-> "scriptCountDiff",
     checkImageCount |-> "imageCountDiff", checkPerformanceScore |-> "performanceScoreDiff",
     checkSEOScore |-> "seoScoreDiff", checkBrokenLinks |-> "brokenLinksMax",
     checkLighthousePerformance |-> "lighthousePerformanceMin"]

GatedChecks == DOMAIN FieldOf

\* this step is an invocation of the given check
Invoked(method) == call' = method /\ calls' = calls + 1

\* C17: when the threshold field of a gated check is not set, an invocation of
\* that check appends no alert, whatever the values it is given.
C17_UnsetNeverAlerts ==
    [][\A method \in GatedChecks :
          (Invoked(method) /\ thresholds[FieldOf[method]] = Null) => alerts' = alerts]_vars

C17_Witness ==
    /\ thresholds = [DEFAULT_THRESHOLDS EXCEPT !.scriptCountDiff = Null]
    /\ call = "checkScriptCount" /\ calls = 1
    /\ devValue = 0 /\ prodValue = 100
    /\ alerts = <<>>

\* the delta of a check strictly exceeds the threshold t
Exceeds(method, dev, prod, t) ==
    CASE method = "checkHTMLSize" -> Abs(prod - dev) * 100 > t * dev
      [] method \in {"checkScriptCount", "checkImageCount"} -> Abs(prod - dev) > t
      [] method \in {"checkPerformanceScore", "checkSEOScore"} -> dev - prod > t
      [] method = "checkBrokenLinks" -> prod > t
      [] method = "checkLighthousePerformance" -> prod < t

\* exactly one alert is appended by this step
AppendsOne == Len(alerts') = Len(alerts) + 1 /\ SubSeq(alerts', 1, Len(alerts)) = alerts

\* C18: an invocation of a gated check appends exactly one alert iff its
\* threshold field is set, 0 included, and the delta strictly exceeds it, and
\* appends nothing otherwise (size checks of a non-empty dev document).
C18_AlertIffSetAndExceeded ==
    [][\A method \in GatedChecks :
          (Invoked(method) /\ (method = "checkHTMLSize" => devValue > 0)) =>
              IF /\ thresholds[FieldOf[method]] # Null
                 /\ Exceeds(method, devValue, prodValue, thresholds[FieldOf[method]][1])
              THEN AppendsOne
              ELSE alerts' = alerts]_vars

\* C19: checkPerformanceScore and checkSEOScore append an 'error' alert of
\* category Performance and SEO iff dev - prod is strictly greater than the
\* configured threshold; when prod >= dev they append nothing.
C19_RegressionOnly ==
    [][\A method \in {"checkPerformanceScore", "checkSEOScore"} :
          Invoked(method) =>
              /\ IF /\ thresholds[FieldOf[method]] # Null
                    /\ devValue - prodValue > thresholds[FieldOf[method]][1]
                 THEN /\ AppendsOne
                      /\ alerts'[Len(alerts')].type = "error"
                      /\ alerts'[Len(alerts')].category
                            = (IF method = "checkSEOScore" THEN "SEO" ELSE "Performance")
                 ELSE alerts' = alerts
              /\ prodValue >= devValue => alerts' = alerts]_vars

RECURSIVE MetaAlertsAsStated(_, _, _)
\* the alerts of the tags from index i on: 'error' when the dev value is
\* present and the prod value absent, 'info' when both are present and unequal
MetaAlertsAsStated(devM, prodM, i) ==
    IF i > Len(criticalMetas) THEN <<>>
    ELSE LET metaName == criticalMetas[i]
             dev  == devM[metaName]
             prod == prodM[metaName]
         IN  (IF present(dev) /\ ~present(prod)
              THEN <<MetaAlert("error", "Critical meta tag missing in production", metaName)>>
              ELSE IF present(dev) /\ present(prod) /\ dev # prod
              THEN <<MetaAlert("info", "Meta tag differs between dev and production", metaName)>>
              ELSE <<>>)
             \o MetaAlertsAsStated(devM, prodM, i + 1)

RECURSIVE MetaAlertsProdPresent(_, _, _)
\* the alerts of the tags from index i on: 'error' when the dev value is
\* present and the prod value absent, 'info' when the prod value is present
\* and the dev value is absent or another text
MetaAlertsProdPresent(devM, prodM, i) ==
    IF i > Len(criticalMetas) THEN <<>>
    ELSE LET metaName == criticalMetas[i]
             dev  == devM[metaName]
             prod == prodM[metaName]
         IN  (IF present(dev) /\ ~present(prod)
              THEN <<MetaAlert("error", "Critical meta tag missing in production", metaName)>>
              ELSE IF present(prod) /\ (~present(dev) \/ dev # prod)
              THEN <<MetaAlert("info", "Meta tag differs between dev and production", metaName)>>
              ELSE <<>>)
             \o MetaAlertsProdPresent(devM, prodM, i + 1)

\* C20 as stated: for each critical meta tag checkMetaTags appends an 'error'
\* alert iff the dev value is present and the prod value absent, an 'info'
\* alert iff both are present and unequal, and nothing otherwise.
C20_MetaAlertsAsStated ==
    [][Invoked("checkMetaTags")
          => alerts' = alerts \o MetaAlertsAsStated(devMetas, prodMetas, 1)]_vars

\* C20 amended: for each critical meta tag checkMetaTags appends an 'error'
\* alert iff the dev value is present and the prod value absent, an 'info'
\* alert iff the prod value is present and differs from the dev value (the
\* dev value absent included), and nothing otherwise.
C20_MetaAlertsProdPresent ==
    [][Invoked("checkMetaTags")
          => alerts' = alerts \o MetaAlertsProdPresent(devMetas, prodMetas, 1)]_vars

C20_Witness ==
    /\ call = "checkMetaTags" /\ calls = 1
    /\ devMetas = [NoMetas EXCEPT !["og:title"] = "a", !["og:description"] = "a"]
    /\ prodMetas = [NoMetas EXCEPT !["description"] = "a", !["og:description"] = "b"]
    /\ Len(alerts) = 3
    /\ alerts[1].type = "info" /\ alerts[1].message.name = "description"
    /\ alerts[2].type = "error" /\ alerts[2].message.name = "og:title"
    /\ alerts[3].type = "info" /\ alerts[3].message.name = "og:description"

\* the message templates each check emits
TemplatesOf ==
    [checkHTMLSize |-> {"HTML size increased by"},
     checkScriptCount |-> {"Script count increased by", "Script count decreased by"},
     checkImageCount |-> {"Image count increased by", "Image count decreased by"},
     checkPerformanceScore |-> {"Performance score decreased by"},
     checkSEOScore |-> {"SEO score decreased by"},
     checkBrokenLinks |-> {"Found broken link(s)"},
     checkLighthousePerformance |-> {"Lighthouse performance score is below minimum"}]

\* C21: the alert list is in invocation order: an invocation of a check keeps
\* the alerts emitted before it, unchanged and in place, as a prefix of the
\* list, and whatever it adds after them are alerts of the invoked check; the
\* list is never reordered by severity.
C21_InvocationOrder ==
    [][\A method \in GatedChecks :
          Invoked(method) =>
              /\ Len(alerts') >= Len(alerts)
              /\ SubSeq(alerts', 1, Len(alerts)) = alerts
              /\ \A i \in (Len(alerts) + 1)..Len(alerts') :
                    alerts'[i].message.template \in TemplatesOf[method]]_vars

\* a warning emitted first stays ahead of an error emitted by a later check
C21_Witness ==
    /\ calls = 2 /\ call = "checkPerformanceScore"
    /\ Len(alerts) = 2
    /\ alerts[1].type = "warning" /\ alerts[1].message.template = "HTML size increased by"
    /\ alerts[2].type = "error"
    /\ alerts[2].message.template = "Performance score decreased by"

(***************************************************************************)
(* analyzer.ts: analyzeDOMStructure, the detailed headings                 *)
(***************************************************************************)
\* the tag names of the elements of a document: the six headings and one other
hTag == <<"h1", "h2", "h3", "h4", "h5", "h6">>
TagNames == {hTag[level] : level \in 1..6} \cup {"p"}
\* the trimmed text contents of an element
TextContents == {"", "a"}
Elements == [tagName : TagNames, textContent : TextContents]
Documents == UNION {[1..n -> Elements] : n \in 0..MaxHeadings}

\* doc.querySelectorAll(selector) for a tag selector: the matching elements in
\* document order
querySelectorAll(d, selector) ==
    LET matches(el) == el.tagName = selector
    IN  SelectSeq(d, matches)

\* the record pushed for one heading; the elements carry no id and no class
HeadingDetail(level, heading) ==
    [level |-> level,
     text |-> IF heading.textContent = "" THEN "(empty)" ELSE heading.textContent,
     id |-> Undefined, className |-> Undefined]

\* the forEach over the headings of one level
headingsOfLevel(d, level) ==
    LET headings == querySelectorAll(d, hTag[level])
    IN  [i \in 1..Len(headings) |-> HeadingDetail(level, headings[i])]

\* for (let level = from; level <= 6; level++) { ... push ... }
RECURSIVE pushHeadings(_, _, _)
pushHeadings(acc, d, level) ==
    IF level > 6 THEN acc
    ELSE pushHeadings(acc \o headingsOfLevel(d, level), d, level + 1)

InitHead ==
    /\ doc \in Documents
    /\ detailedHeadings = <<>>
    /\ domAnalyzed = FALSE
    /\ IdleCore /\ IdleFetch /\ IdleRun /\ IdleHist /\ IdleDl /\ IdleTl

analyzeDOMStructure ==
    /\ ~domAnalyzed
    /\ detailedHeadings' = pushHeadings(<<>>, doc, 1)
    /\ domAnalyzed' = TRUE
    /\ UNCHANGED <<doc, coreVars, fetchVars, runVars, histVars, dlVars, tlVars>>

NextHead == analyzeDOMStructure

SpecHead == InitHead /\ [][NextHead]_vars

(***************************************************************************)
(* analyzeDOMStructure: properties                                         *)
(***************************************************************************)
\* the level of a heading element
LevelOf(el) == CHOOSE level \in 1..6 : hTag[level] = el.tagName

\* the heading elements of the document, in document order
HeadingsInDocumentOrder ==
    LET isHeading(el) == el.tagName # "p"
    IN  SelectSeq(doc, isHeading)

\* C22: detailedHeadings lists all h1..h6 elements of the document in document
\* order across all levels: the heading that occurs i-th in the document is
\* the i-th entry, whatever its level.
C22_DocumentOrder ==
    domAnalyzed =>
        /\ Len(detailedHeadings) = Len(HeadingsInDocumentOrder)
        /\ \A i \in 1..Len(detailedHeadings) :
              detailedHeadings[i] = HeadingDetail(LevelOf(HeadingsInDocumentOrder[i]),
                                                  HeadingsInDocumentOrder[i])

(***************************************************************************)
(* analyzeResourcesFromHTML: the content fetches of one environment.  The  *)
(* rendered document is the sequence of its script[src], link[rel=         *)
(* stylesheet] and img[src] elements in document order; the result of      *)
(* fetching a URL is fixed.                                                *)
(***************************************************************************)
ScriptA == [tag |-> "script", url |-> "https://h.test/js/a.js"]
ScriptB == [tag |-> "script", url |-> "https://h.test/js/b.js"]
LinkS   == [tag |-> "link", url |-> "https://h.test/css/s.css"]
LinkT   == [tag |-> "link", url |-> "https://h.test/css/t.css"]
ImgX    == [tag |-> "img", url |-> "https://h.test/img/x.png"]
PageElements == {ScriptA, ScriptB, LinkS, LinkT, ImgX}

\* a page of many script tags: script number i loads a.js or b.js in turn
ManyScripts == [i \in 1..MaxFetches |-> IF i % 2 = 1 THEN ScriptA ELSE ScriptB]
Pages == UNION {[1..n -> PageElements] : n \in 0..MaxPage} \cup {ManyScripts}

\* extractPathInfo(url): the last path segment and the path before it
extractPathInfo(url) ==
    CASE url = "https://h.test/js/a.js"   -> [fileName |-> "a.js", path |-> "/js"]
      [] url = "https://h.test/js/b.js"   -> [fileName |-> "b.js", path |-> "/js"]
      [] url = "https://h.test/css/s.css" -> [fileName |-> "s.css", path |-> "/css"]
      [] url = "https://h.test/css/t.css" -> [fileName |-> "t.css", path |-> "/css"]
      [] url = "https://h.test/img/x.png" -> [fileName |-> "x.png", path |-> "/img"]
      [] url = "https://h.test/img/y.png" -> [fileName |-> "y.png", path |-> "/img"]

\* what the proxy answers for each URL: a text, or a failure (b.js), after
\* which fetchContent returns undefined
fetchContent(url) ==
    CASE url = "https://h.test/js/a.js"   -> <<"a()">>
      [] url = "https://h.test/js/b.js"   -> Null
      [] url = "https://h.test/css/s.css" -> <<"a{background:url(/img/x.png)}">>
      [] url = "https://h.test/css/t.css" -> <<"b{background:url(/img/y.png)}">>

\* extractBackgroundImages(cssText), each URL resolved against the stylesheet
extractBackgroundImages(cssText) ==
    CASE cssText = "a{background:url(/img/x.png)}" -> <<"https://h.test/img/x.png">>
      [] cssText = "b{background:url(/img/y.png)}" -> <<"https://h.test/img/y.png">>
      [] OTHER -> <<>>

StaticResource(url, type, mimeType, content) ==
    [url |-> url, type |-> type, mimeType |-> mimeType,
     fileName |-> extractPathInfo(url).fileName, path |-> extractPathInfo(url).path,
     content |-> content]

withTag(d, tag) ==
    LET matches(el) == el.tag = tag
    IN  SelectSeq(d, matches)

\* [...scriptPromises, ...stylePromises]: one content fetch per script[src]
\* and per stylesheet link, each started when its element is visited
fetchesOf(d) == withTag(d, "script") \o withTag(d, "link")

\* the images pushed while the document is scanned
imagesOf(d) ==
    LET imgs == withTag(d, "img")
    IN  [i \in 1..Len(imgs) |-> StaticResource(imgs[i].url, "image", "image/*", Null)]

\* the then-callback of one content fetch: the resource itself and, for a
\* stylesheet with content, its background images
pushedBy(el) ==
    LET content == fetchContent(el.url)
    IN  IF el.tag = "script"
        THEN <<StaticResource(el.url, "script", "text/javascript", content)>>
        ELSE <<StaticResource(el.url, "stylesheet", "text/css", content)>>
             \o (IF content = Null THEN <<>>
                 ELSE LET bgUrls == extractBackgroundImages(content[1])
                      IN  [i \in 1..Len(bgUrls) |->
                              StaticResource(bgUrls[i], "image", "image/*", Null)])

\* uniqueResourcesMap: the first resource of each URL, in insertion order
RECURSIVE uniqueResources(_, _)
uniqueResources(rs, seen) ==
    IF rs = <<>> THEN <<>>
    ELSE IF Head(rs).url \in seen THEN uniqueResources(Tail(rs), seen)
    ELSE <<Head(rs)>> \o uniqueResources(Tail(rs), seen \cup {Head(rs).url})

ofType(rs, type) ==
    LET matches(r) == r.type = type
    IN  SelectSeq(rs, matches)

ResourceData(rs) ==
    LET unique == uniqueResources(rs, {})
    IN  [all |-> unique,
         scripts |-> ofType(unique, "script"),
         stylesheets |-> ofType(unique, "stylesheet"),
         images |-> ofType(unique, "image"),
         fonts |-> ofType(unique, "font"),
         media |-> ofType(unique, "media"),
         other |-> ofType(unique, "other"),
         totalSize |-> 0,
         totalRequests |-> Len(unique)]

InitFetch ==
    /\ page \in Pages
    /\ analysis = "idle"
    /\ contentFetches = <<>>
    /\ resourceList = <<>>
    /\ resourceData = Null
    /\ IdleCore /\ IdleHead /\ IdleRun /\ IdleHist /\ IdleDl /\ IdleTl

\* the synchronous pass over the document: every content fetch is started
\* and the images are pushed
ScanDocument ==
    /\ analysis = "idle"
    /\ analysis' = "fetching"
    /\ contentFetches' = [i \in 1..Len(fetchesOf(page)) |-> "pending"]
    /\ resourceList' = imagesOf(page)
    /\ UNCHANGED <<page, resourceData, coreVars, headVars, runVars, histVars, dlVars, tlVars>>

\* one content fetch settles and its then-callback runs
SettleFetch(i) ==
    /\ analysis = "fetching"
    /\ contentFetches[i] = "pending"
    /\ contentFetches' = [contentFetches EXCEPT ![i] = "settled"]
    /\ resourceList' = resourceList \o pushedBy(fetchesOf(page)[i])
    /\ UNCHANGED <<page, analysis, resourceData, coreVars, headVars, runVars, histVars, dlVars, tlVars>>

\* await Promise.all([...scriptPromises, ...stylePromises]) resumes
ReturnResourceData ==
    /\ analysis = "fetching"
    /\ \A i \in DOMAIN contentFetches : contentFetches[i] = "settled"
    /\ analysis' = "done"
    /\ resourceData' = <<ResourceData(resourceList)>>
    /\ UNCHANGED <<page, contentFetches, resourceList, coreVars, headVars, runVars, histVars, dlVars, tlVars>>

NextFetch ==
    \/ ScanDocument
    \/ \E i \in 1..MaxFetches : i \in DOMAIN contentFetches /\ SettleFetch(i)
    \/ ReturnResourceData

SpecFetch == InitFetch /\ [][NextFetch]_vars

(***************************************************************************)
(* analyzeResourcesFromHTML: properties                                    *)
(***************************************************************************)
\* the content fetches that are in flight
InFlight == {i \in DOMAIN contentFetches : contentFetches[i] = "pending"}

\* C23: while the contents of one environment are fetched, at most 5 content
\* fetches are in flight at any moment.
C23_AtMostFiveInFlight == Cardinality(InFlight) <= 5

\* what the resources array holds when the content fetches complete in the
\* order in which they were started
RECURSIVE pushedInStartOrder(_)
pushedInStartOrder(fs) ==
    IF fs = <<>> THEN <<>> ELSE pushedBy(Head(fs)) \o pushedInStartOrder(Tail(fs))

\* C28: for a fixed rendered document and fixed per-URL fetch results, the
\* resource lists returned (membership after de-duplication and order within
\* each category) are the same for every order in which the content fetches
\* complete: they are the lists of the run in which the fetches complete in
\* the order they were started.
C28_CompletionOrderIndependent ==
    analysis = "done" =>
        LET inStartOrder ==
                ResourceData(imagesOf(page) \o pushedInStartOrder(fetchesOf(page)))
            returned == resourceData[1]
        IN  /\ {returned.all[i] : i \in DOMAIN returned.all}
                  = {inStartOrder.all[i] : i \in DOMAIN inStartOrder.all}
            /\ Len(returned.all) = Len(inStartOrder.all)
            /\ \A category \in {"scripts", "stylesheets", "images", "fonts", "media", "other"} :
                  returned[category] = inStartOrder[category]

(***************************************************************************)
(* HistoryManager: the stored history.  An entry is the saved record with  *)
(* an id (the clock reading as a string, modelled by the reading itself)   *)
(* and a timestamp.                                                        *)
(***************************************************************************)
\* history.slice(-n): the last n elements
lastItems(h, n) == IF Len(h) <= n THEN h ELSE SubSeq(h, Len(h) - n + 1, Len(h))

\* A plausible slip: the new entry is put at the front of the list.
saveAtFront(h, entry, clock) ==
    LET newEntry == [devUrl |-> entry.devUrl, prodUrl |-> entry.prodUrl,
                     results |-> entry.results, alerts |-> entry.alerts,
                     id |-> clock, timestamp |-> clock]
    IN  lastItems(<<newEntry>> \o h, MAX_HISTORY_ITEMS)

\* HistoryManager.save(entry) at the given reading of Date.now(): the list
\* written back to localStorage
save(h, entry, clock) ==
    LET newEntry == [devUrl |-> entry.devUrl, prodUrl |-> entry.prodUrl,
                     results |-> entry.results, alerts |-> entry.alerts,
                     id |-> clock, timestamp |-> clock]
    IN  lastItems(Append(h, newEntry), MAX_HISTORY_ITEMS)

(***************************************************************************)
(* App: one comparison run, handleSubmit(devUrl, prodUrl).  A site is what *)
(* its URL serves: the facts analyzeHTML extracts from the page, and the   *)
(* meta tags of the page.                                                  *)
(***************************************************************************)
SmallPage == [length |-> 100, totalElements |-> 50, scripts |-> 10, images |-> 10,
              styles |-> 2, score |-> 100]
BigPage   == [length |-> 200, totalElements |-> 90, scripts |-> 20, images |-> 10,
              styles |-> 2, score |-> 50]
\* the content of each critical meta tag of a page, Undefined when the page
\* has no such tag
SiteMetas == [{criticalMetas[i] : i \in 1..3} -> {Undefined, "a"}]
Sites == [facts : {SmallPage, BigPage}, metas : SiteMetas]

\* getMetaContent(name): meta?.getAttribute('content') || ''
getMetaContent(site, name) ==
    IF site.metas[name] = Undefined THEN "" ELSE site.metas[name]

\* analyzeSEO: the SEOData fields taken from meta tags
analyzeSEO(site) ==
    [title |-> "t",
     description |-> getMetaContent(site, "description"),
     ogTitle |-> getMetaContent(site, "og:title"),
     ogDescription |-> getMetaContent(site, "og:description")]

\* analyzeHTML(html, url)
analyzeHTML(site) ==
    [dom |-> [totalElements |-> site.facts.totalElements, scripts |-> site.facts.scripts,
              images |-> site.facts.images, styles |-> site.facts.styles],
     seo |-> analyzeSEO(site),
     performance |-> [score |-> site.facts.score]]

\* obj[key] of JavaScript: undefined when the object has no such property
property(obj, key) == IF key \in DOMAIN obj THEN obj[key] ELSE Undefined

\* the values checkMetaTags reads from an SEOData object
metasRead(seo) == [metaName \in {criticalMetas[i] : i \in 1..3} |-> property(seo, metaName)]

\* new AlertSystem(config.thresholds), the five checks, getAlerts()
runChecks(th, devSite_, prodSite_) ==
    LET devAnalysis  == analyzeHTML(devSite_)
        prodAnalysis == analyzeHTML(prodSite_)
        a1 == checkHTMLSize(th, <<>>, devSite_.facts.length, prodSite_.facts.length)
        a2 == checkScriptCount(th, a1, devAnalysis.dom.scripts, prodAnalysis.dom.scripts)
        a3 == checkImageCount(th, a2, devAnalysis.dom.images, prodAnalysis.dom.images)
        a4 == checkPerformanceScore(th, a3, devAnalysis.performance.score,
                                    prodAnalysis.performance.score)
    IN  checkMetaTags(a4, metasRead(devAnalysis.seo), metasRead(prodAnalysis.seo), 1)

\* the entry handed to HistoryManager.save
historyEntry(devSite_, prodSite_, generatedAlerts) ==
    LET devAnalysis  == analyzeHTML(devSite_)
        prodAnalysis == analyzeHTML(prodSite_)
    IN  [devUrl |-> "dev", prodUrl |-> "prod",
         results |->
            [dom |-> [totalElementsDiff |-> prodAnalysis.dom.totalElements
                                             - devAnalysis.dom.totalElements,
                      scriptsDiff |-> prodAnalysis.dom.scripts - devAnalysis.dom.scripts,
                      imagesDiff |-> prodAnalysis.dom.images - devAnalysis.dom.images,
                      stylesDiff |-> prodAnalysis.dom.styles - devAnalysis.dom.styles],
             seo |-> [titleMatch |-> devAnalysis.seo.title = prodAnalysis.seo.title,
                      descriptionMatch |-> devAnalysis.seo.description
                                            = prodAnalysis.seo.description],
             performance |-> [scoreDiff |-> prodAnalysis.performance.score
                                             - devAnalysis.performance.score]],
         alerts |-> generatedAlerts]

InitRun ==
    /\ devSite \in Sites
    /\ prodSite \in Sites
    /\ config \in {DEFAULT_THRESHOLDS, STRICT_THRESHOLDS}
    /\ runPc = "idle" /\ runs = 0
    /\ devHTML = "none" /\ prodHTML = "none"
    /\ loading = FALSE /\ error = ""
    /\ devData = Null /\ prodData = Null
    /\ appAlerts = <<>>
    /\ historyUpdated = 0
    /\ history = <<>> /\ now = 0 /\ IdleHistAux
    /\ IdleCore /\ IdleHead /\ IdleFetch /\ IdleDl /\ IdleTl

\* handleSubmit up to its first await: the state is reset and both HTML
\* fetches are started
Submit ==
    /\ runPc \in {"idle", "done"}
    /\ runs < MaxRuns
    /\ runs' = runs + 1
    /\ now' = now + 1
    /\ loading' = TRUE
    /\ error' = ""
    /\ devData' = Null /\ prodData' = Null
    /\ appAlerts' = <<>>
    /\ devHTML' = "pending" /\ prodHTML' = "pending"
    /\ runPc' = "fetching"
    /\ UNCHANGED <<devSite, prodSite, config, historyUpdated, history,
                   coreVars, headVars, fetchVars, histAux, dlVars, tlVars>>

\* fetchHTML(devUrl) settles: it resolves with the page or rejects
SettleDevHTML(ok) ==
    /\ runPc = "fetching" /\ devHTML = "pending"
    /\ devHTML' = IF ok THEN "resolved" ELSE "rejected"
    /\ UNCHANGED <<devSite, prodSite, config, runPc, runs, prodHTML, loading, error,
                   devData, prodData, appAlerts, historyUpdated, history, now,
                   coreVars, headVars, fetchVars, histAux, dlVars, tlVars>>

SettleProdHTML(ok) ==
    /\ runPc = "fetching" /\ prodHTML = "pending"
    /\ prodHTML' = IF ok THEN "resolved" ELSE "rejected"
    /\ UNCHANGED <<devSite, prodSite, config, runPc, runs, devHTML, loading, error,
                   devData, prodData, appAlerts, historyUpdated, history, now,
                   coreVars, headVars, fetchVars, histAux, dlVars, tlVars>>

\* A plausible slip: the analysis starts as soon as the dev page has arrived.
AnalyzeAfterDev ==
    /\ runPc = "fetching"
    /\ devHTML = "resolved"
    /\ runPc' = "resources"
    /\ UNCHANGED <<devSite, prodSite, config, runs, devHTML, prodHTML, loading, error,
                   devData, prodData, appAlerts, historyUpdated, history, now,
                   coreVars, headVars, fetchVars, histAux, dlVars, tlVars>>

\* Promise.all of the two fetches resolves: both pages are analysed and the
\* two resource analyses are awaited
AnalyzeBoth ==
    /\ runPc = "fetching"
    /\ devHTML = "resolved" /\ prodHTML = "resolved"
    /\ runPc' = "resources"
    /\ UNCHANGED <<devSite, prodSite, config, runs, devHTML, prodHTML, loading, error,
                   devData, prodData, appAlerts, historyUpdated, history, now,
                   coreVars, headVars, fetchVars, histAux, dlVars, tlVars>>

\* the resource analyses have resolved: the data is set, the checks run, the
\* entry is saved, and the finally block resets loading
CompleteRun ==
    /\ runPc = "resources"
    /\ devData' = <<analyzeHTML(devSite)>>
    /\ prodData' = <<analyzeHTML(prodSite)>>
    /\ appAlerts' = runChecks(config, devSite, prodSite)
    /\ history' = save(history, historyEntry(devSite, prodSite, appAlerts'), now)
    /\ historyUpdated' = historyUpdated + 1
    /\ loading' = FALSE
    /\ runPc' = "done"
    /\ UNCHANGED <<devSite, prodSite, config, runs, devHTML, prodHTML, error, now,
                   coreVars, headVars, fetchVars, histAux, dlVars, tlVars>>

\* Promise.all of the two fetches rejects as soon as one fetch has rejected:
\* the catch block records the error and the finally block resets loading
FailRun ==
    /\ runPc = "fetching"
    /\ devHTML = "rejected" \/ prodHTML = "rejected"
    /\ error' = "fetch failed"
    /\ loading' = FALSE
    /\ runPc' = "done"
    /\ UNCHANGED <<devSite, prodSite, config, runs, devHTML, prodHTML,
                   devData, prodData, appAlerts, historyUpdated, history, now,
                   coreVars, headVars, fetchVars, histAux, dlVars, tlVars>>

NextRun ==
    \/ Submit
    \/ \E ok \in BOOLEAN : SettleDevHTML(ok)
    \/ \E ok \in BOOLEAN : SettleProdHTML(ok)
    \/ AnalyzeBoth
    \/ CompleteRun
    \/ FailRun

SpecRun == InitRun /\ [][NextRun]_vars

\* every fetch settles and every continuation that is ready is run
SpecRunFair == SpecRun /\ WF_vars(NextRun)

(***************************************************************************)
(* handleSubmit: properties                                                *)
(***************************************************************************)
BothResolved == devHTML = "resolved" /\ prodHTML = "resolved"
OneRejected  == devHTML = "rejected" \/ prodHTML = "rejected"

\* a step in which the analysis begins, data or alerts are set, or an entry
\* is saved
BeginsAnalysisOrPublishes ==
    \/ runPc # "resources" /\ runPc' = "resources"
    \/ devData' # devData /\ devData' # Null
    \/ prodData' # prodData /\ prodData' # Null
    \/ appAlerts' # appAlerts /\ appAlerts' # <<>>
    \/ history' # history

\* C24: in a comparison run the HTML analysis, the alert evaluation and the
\* history save begin only after both HTML fetches have resolved; when a
\* fetch has failed the run ends with no analysis data, no alerts, no new
\* history entry and a recorded error; the run ends with loading false, and
\* loading, once set, is eventually reset to false.
C24_AfterBothFetches ==
    /\ [][/\ BeginsAnalysisOrPublishes => BothResolved
          /\ OneRejected => /\ history' = history
                            /\ devData' = Null /\ prodData' = Null /\ appAlerts' = <<>>]_vars
    /\ [](runPc = "done" => ~loading)
    /\ []((runPc = "done" /\ OneRejected) => error # "")
    /\ (loading ~> ~loading)

\* a run that succeeded followed by a run in which the prod fetch failed
C24_Witness ==
    /\ runs = 2 /\ runPc = "done"
    /\ devHTML = "resolved" /\ prodHTML = "rejected"
    /\ error = "fetch failed" /\ ~loading
    /\ devData = Null /\ prodData = Null /\ appAlerts = <<>>
    /\ Len(history) = 1

\* the alert list has an 'error' alert that the given critical meta tag is
\* missing in production
HasMissingAlert(metaName) ==
    \E i \in DOMAIN appAlerts :
        /\ appAlerts[i].type = "error"
        /\ appAlerts[i].message.template = "Critical meta tag missing in production"
        /\ appAlerts[i].message.name = metaName

\* C29: in a completed comparison run, whenever the dev page has a non-empty
\* description, og:title or og:description and the prod page has none, the
\* alert list contains the 'error' alert that this meta tag is missing in
\* production.
C29_CriticalMetasCovered ==
    (runPc = "done" /\ error = "") =>
        \A i \in 1..Len(criticalMetas) :
            (present(devSite.metas[criticalMetas[i]]) /\ ~present(prodSite.metas[criticalMetas[i]]))
                => HasMissingAlert(criticalMetas[i])

(***************************************************************************)
(* HistoryManager.save / delete and the CLI's saveToHistory, as a          *)
(* sequence of calls on a store that already holds earlier entries         *)
(***************************************************************************)
ErrorAlert == [type |-> "error", category |-> "SEO", message |-> "m"]
\* the entries handed to save
EntryInputs ==
    {[devUrl |-> "dev", prodUrl |-> "prod", results |-> "r1", alerts |-> <<>>],
     [devUrl |-> "dev", prodUrl |-> "prod", results |-> "r2", alerts |-> <<ErrorAlert>>]}
\* the results handed to saveToHistory; alerts may be missing
CliResults ==
    {[devUrl |-> "dev", prodUrl |-> "prod", dom |-> "r1", alerts |-> Undefined],
     [devUrl |-> "dev", prodUrl |-> "prod", dom |-> "r2", alerts |-> <<ErrorAlert>>]}

\* saveToHistory(results) at the given reading of Date.now(): the list
\* written back to the file
saveToHistory(h, results, clock) ==
    LET historyEntry_ ==
            [id |-> clock, timestamp |-> clock,
             devUrl |-> results.devUrl, prodUrl |-> results.prodUrl,
             results |-> results.dom,
             alerts |-> IF results.alerts = Undefined THEN <<>> ELSE results.alerts]
        pushed == Append(h, historyEntry_)
    IN  IF Len(pushed) > 100 THEN lastItems(pushed, 100) ELSE pushed

\* history.filter(item => item.id !== id)
withoutId(h, id) ==
    LET keep(item) == item.id # id
    IN  SelectSeq(h, keep)

\* the store after n earlier saves, one per clock reading 1..n
Stored(n) ==
    [i \in 1..n |-> [devUrl |-> "dev", prodUrl |-> "prod",
                     results |-> IF i % 2 = 1 THEN "r1" ELSE "r2",
                     alerts |-> IF i % 2 = 1 THEN <<>> ELSE <<ErrorAlert>>,
                     id |-> i, timestamp |-> i]]
StoredSizes == {0, MAX_HISTORY_ITEMS - 1, MAX_HISTORY_ITEMS}

InitHist ==
    /\ \E n \in StoredSizes :
          /\ history = Stored(n)
          /\ fileHistory = Stored(n)
          /\ now = n
    /\ deleted = "none" /\ histOps = 0 /\ histCall = NoCall
    /\ IdleCore /\ IdleHead /\ IdleFetch /\ IdleRun /\ IdleDl /\ IdleTl

\* HistoryManager.save(entry), elapsed clock ticks after the previous call
Save(entry, elapsed) ==
    /\ histOps < MaxSaves
    /\ histOps' = histOps + 1
    /\ now' = now + elapsed
    /\ history' = save(history, entry, now')
    /\ histCall' = [op |-> "save", id |-> now']
    /\ deleted' = "none"
    /\ UNCHANGED <<fileHistory, coreVars, headVars, fetchVars, runVars, dlVars, tlVars>>

\* the CLI's saveToHistory(results)
SaveToHistory(results, elapsed) ==
    /\ histOps < MaxSaves
    /\ histOps' = histOps + 1
    /\ now' = now + elapsed
    /\ fileHistory' = saveToHistory(fileHistory, results, now')
    /\ histCall' = [op |-> "saveToHistory", id |-> now']
    /\ deleted' = "none"
    /\ UNCHANGED <<history, coreVars, headVars, fetchVars, runVars, dlVars, tlVars>>

\* HistoryManager.delete(id)
Delete(id) ==
    /\ histOps < MaxSaves
    /\ histOps' = histOps + 1
    /\ LET filtered == withoutId(history, id)
       IN  IF Len(filtered) = Len(history)
           THEN history' = history /\ deleted' = "false"
           ELSE history' = filtered /\ deleted' = "true"
    /\ histCall' = [op |-> "delete", id |-> id]
    /\ UNCHANGED <<now, fileHistory, coreVars, headVars, fetchVars, runVars, dlVars, tlVars>>

NextHist ==
    \/ \E entry \in EntryInputs, elapsed \in {0, 1} : Save(entry, elapsed)
    \/ \E results \in CliResults, elapsed \in {0, 1} : SaveToHistory(results, elapsed)
    \/ \E id \in {0, 1, now} : Delete(id)

SpecHist == InitHist /\ [][NextHist]_vars

(***************************************************************************)
(* History: properties                                                     *)
(***************************************************************************)
\* this step is a call of the given history operation
Called(op) == histCall'.op = op /\ histOps' = histOps + 1

\* after is before with one entry added at the end, and with the oldest
\* entries dropped as far as needed to hold at most 100
AppendedAndTrimmed(before, after) ==
    /\ Len(after) = IF Len(before) < 100 THEN Len(before) + 1 ELSE 100
    /\ \A k \in 1..(Len(after) - 1) :
          after[k] = before[Len(before) - (Len(after) - 1) + k]
    /\ after[Len(after)].id = now' /\ after[Len(after)].timestamp = now'

\* C25: the stored history holds at most 100 entries, and a save (of the web
\* app or of the CLI) only appends: the store afterwards is the entries
\* retained from before, unchanged and in their order, the oldest dropped
\* first and only beyond 100, followed by the new entry.
C25_BoundedAppendOnly ==
    /\ [](Len(history) <= 100 /\ Len(fileHistory) <= 100)
    /\ [][/\ Called("save") => AppendedAndTrimmed(history, history')
          /\ Called("saveToHistory") => AppendedAndTrimmed(fileHistory, fileHistory')]_vars

\* the store was full, and two saves have dropped its two oldest entries
C25_Witness ==
    /\ histOps = 2 /\ histCall.op = "save"
    /\ Len(history) = 100
    /\ history[1].id = 3
    /\ history[99].id = 101 /\ history[100].id = 102

\* the positions of the stored entries with the given id
WithId(h, id) == {k \in DOMAIN h : h[k].id = id}

\* C26: no two stored entries have the same id, two saves at the same clock
\* reading included; so delete(id) removes exactly one entry, returns true
\* iff an entry was removed, and leaves the other entries unchanged and in
\* their order.
C26_UniqueIds ==
    /\ [](\A j, k \in DOMAIN history : j # k => history[j].id # history[k].id)
    /\ [][Called("delete") =>
            /\ deleted' = (IF WithId(history, histCall'.id) # {} THEN "true" ELSE "false")
            /\ deleted' = "true" => Len(history') = Len(history) - 1
            /\ deleted' = "false" => history' = history
            /\ history' = withoutId(history, histCall'.id)]_vars

(***************************************************************************)
(* HistoryTimeline: the list shown, render after render                    *)
(***************************************************************************)
\* Array.prototype.reverse: the array with its elements in reverse order;
\* the array itself is changed
reverse(a) == [k \in 1..Len(a) |-> a[Len(a) + 1 - k]]

\* history.filter(...) of filteredHistory for the filters 'errors' and 'warnings'
filterBy(h, filter) ==
    LET wanted == IF filter = "errors" THEN "error" ELSE "warning"
        matches(item) == \E k \in DOMAIN item.alerts : item.alerts[k].type = wanted
    IN  SelectSeq(h, matches)

\* One render.  filteredHistory is the state array itself for the filter
\* 'all', and otherwise the array useMemo holds, computed anew only when the
\* filter has changed; filteredHistory.reverse() then reverses that array in
\* place and its items are shown in the resulting order.
Render(h, filter) ==
    IF filter = "all"
    THEN /\ tlHistory' = reverse(h)
         /\ memoized' = reverse(h)
         /\ displayed' = reverse(h)
    ELSE LET filteredHistory == IF memoFilter = filter THEN memoized ELSE filterBy(h, filter)
         IN  /\ tlHistory' = h
             /\ memoized' = reverse(filteredHistory)
             /\ displayed' = reverse(filteredHistory)

InitTimeline ==
    /\ \E n \in 0..MaxTimeline : history = Stored(n) /\ now = n
    /\ IdleHistAux /\ IdleTl
    /\ IdleCore /\ IdleHead /\ IdleFetch /\ IdleRun /\ IdleDl

\* the component is mounted: useState(HistoryManager.getAll()), first render
Mount ==
    /\ renders = 0
    /\ renders' = 1
    /\ tlFilter' = "all" /\ selectedItem' = Null
    /\ memoFilter' = "all"
    /\ Render(history, "all")
    /\ UNCHANGED <<histVars, coreVars, headVars, fetchVars, runVars, dlVars>>

\* a click on a shown item: setSelectedItem(isSelected ? null : item)
ClickItem(k) ==
    /\ renders > 0 /\ renders < MaxRenders
    /\ k \in DOMAIN displayed
    /\ selectedItem' = IF selectedItem = <<displayed[k].id>> THEN Null ELSE <<displayed[k].id>>
    /\ renders' = renders + 1
    /\ memoFilter' = tlFilter
    /\ Render(tlHistory, tlFilter)
    /\ UNCHANGED <<tlFilter, histVars, coreVars, headVars, fetchVars, runVars, dlVars>>

\* a click on a filter button that is not the active one: setFilter(filter)
SetFilter(filter) ==
    /\ renders > 0 /\ renders < MaxRenders
    /\ filter # tlFilter
    /\ tlFilter' = filter
    /\ renders' = renders + 1
    /\ memoFilter' = filter
    /\ Render(tlHistory, filter)
    /\ UNCHANGED <<selectedItem, histVars, coreVars, headVars, fetchVars, runVars, dlVars>>

NextTimeline ==
    \/ Mount
    \/ \E k \in 1..MaxTimeline : ClickItem(k)
    \/ \E filter \in {"all", "errors", "warnings"} : SetFilter(filter)

SpecTimeline == InitTimeline /\ [][NextTimeline]_vars

(***************************************************************************)
(* HistoryTimeline: properties                                             *)
(***************************************************************************)
\* the stored entries the filter lets through, in storage order
Filtered(h, filter) == IF filter = "all" THEN h ELSE filterBy(h, filter)

\* C27: on every render the timeline shows the entries of the active filter
\* newest first, the reverse of storage order, and the component's history
\* state array is never reordered by rendering.
C27_NewestFirst ==
    renders > 0 =>
        /\ displayed = reverse(Filtered(history, tlFilter))
        /\ tlHistory = history

(***************************************************************************)
(* downloadResources.ts: downloadAllResources.  Resource k of allResources *)
(* is identified by its position 1..total.                                 *)
(***************************************************************************)
\* A plausible slip: the slice has no end, so a batch is all that remains.
batchToEnd(i, total) == (i + 1)..total

\* allResources.slice(i, i + concurrency), as the positions of its elements
\* (i is 0-based)
batch(i, total) == (i + 1)..(IF i + concurrency < total THEN i + concurrency ELSE total)

\* batch.map(async resource => ...): downloadResource is called for every
\* resource of the batch
startBatch(status, i, total) ==
    [k \in DOMAIN status |-> IF k \in batch(i, total) THEN "inflight" ELSE status[k]]
attempted(attempts, i, total) ==
    [k \in DOMAIN attempts |-> IF k \in batch(i, total) THEN attempts[k] + 1 ELSE attempts[k]]

InitDownload ==
    /\ dlTotal \in 0..MaxDownloads
    /\ dlPc = "idle" /\ dlIndex = 0
    /\ dlStatus = [k \in 1..dlTotal |-> "waiting"]
    /\ dlAttempts = [k \in 1..dlTotal |-> 0]
    /\ downloaded = 0 /\ successful = 0 /\ progress = NoProgress
    /\ IdleCore /\ IdleHead /\ IdleFetch /\ IdleRun /\ IdleHist /\ IdleTl

\* downloadAllResources up to its first await: the first batch is started,
\* or the loop is skipped when there is no resource
BeginDownload ==
    /\ dlPc = "idle"
    /\ dlIndex' = 0
    /\ IF 0 < dlTotal
       THEN /\ dlStatus' = startBatch(dlStatus, 0, dlTotal)
            /\ dlAttempts' = attempted(dlAttempts, 0, dlTotal)
            /\ dlPc' = "batch"
       ELSE /\ UNCHANGED <<dlStatus, dlAttempts>>
            /\ dlPc' = "zip"
    /\ UNCHANGED <<dlTotal, downloaded, successful, progress,
                   coreVars, headVars, fetchVars, runVars, histVars, tlVars>>

\* downloadResource(resource.url) returns a result (ok) or null, and the
\* rest of the callback runs: the counters and onProgress
SettleDownload(k, ok) ==
    /\ dlPc = "batch"
    /\ k \in DOMAIN dlStatus /\ dlStatus[k] = "inflight"
    /\ dlStatus' = [dlStatus EXCEPT ![k] = IF ok THEN "ok" ELSE "failed"]
    /\ downloaded' = downloaded + 1
    /\ successful' = IF ok THEN successful + 1 ELSE successful
    /\ progress' = [current |-> downloaded', total |-> dlTotal]
    /\ UNCHANGED <<dlPc, dlTotal, dlIndex, dlAttempts,
                   coreVars, headVars, fetchVars, runVars, histVars, tlVars>>

\* Promise.all of the batch resolves: i += concurrency, and the next batch
\* is started or the loop ends
NextBatch ==
    /\ dlPc = "batch"
    /\ \A k \in DOMAIN dlStatus : dlStatus[k] # "inflight"
    /\ dlIndex' = dlIndex + concurrency
    /\ IF dlIndex' < dlTotal
       THEN /\ dlStatus' = startBatch(dlStatus, dlIndex', dlTotal)
            /\ dlAttempts' = attempted(dlAttempts, dlIndex', dlTotal)
            /\ dlPc' = "batch"
       ELSE /\ UNCHANGED <<dlStatus, dlAttempts>>
            /\ dlPc' = "zip"
    /\ UNCHANGED <<dlTotal, downloaded, successful, progress,
                   coreVars, headVars, fetchVars, runVars, histVars, tlVars>>

\* zip.generateAsync and saveAs
SaveZip ==
    /\ dlPc = "zip"
    /\ dlPc' = "done"
    /\ UNCHANGED <<dlTotal, dlIndex, dlStatus, dlAttempts, downloaded, successful, progress,
                   coreVars, headVars, fetchVars, runVars, histVars, tlVars>>

NextDownload ==
    \/ BeginDownload
    \/ \E k \in 1..MaxDownloads, ok \in BOOLEAN : SettleDownload(k, ok)
    \/ NextBatch
    \/ SaveZip

SpecDownload == InitDownload /\ [][NextDownload]_vars

(***************************************************************************)
(* downloadAllResources: properties                                        *)
(***************************************************************************)
Downloading == {k \in DOMAIN dlStatus : dlStatus[k] = "inflight"}
Settled(k) == dlStatus[k] \in {"ok", "failed"}

=============================================================================
